---- MODULE Spec2Model ----
(***************************************************************************)
(* Model of the amorce-js-sdk transaction clients.                         *)
(*                                                                         *)
(*   AmorceClient (dist/index.mjs)  - flat body + header signature,       *)
(*                                    undici request wrapped in p-retry    *)
(*   NexusClient  (src/client.ts)   - signed envelope as body,             *)
(*                                    cross-fetch wrapped in fetch-retry   *)
(*                                                                         *)
(* A call (transact or discover) is a small process: it validates and      *)
(* builds its request once, then sends attempts one after the other; the   *)
(* remote service answers every attempt with a status and a body, or the   *)
(* attempt fails at the network level.                                     *)
(***************************************************************************)
EXTENDS Integers, Sequences, FiniteSets, TLC

VARIABLES client, remote, pc, op, args, prep, sent, hist, result, signs, uuids,
          delays, ctor, probe

vars == <<client, remote, pc, op, args, prep, sent, hist, result, signs, uuids,
         delays, ctor, probe>>

(***************************************************************************)
(* Bounds and input sets                                                   *)
(***************************************************************************)
\* number of distinct values uuidv4() can return in the model
NumUuids == 2

\* largest number of trailing slashes of a URL given to a constructor
MaxSlashes == 2

UuidNames == <<"uuid-1", "uuid-2", "uuid-3", "uuid-4">>

Uuids == {UuidNames[i] : i \in 1..NumUuids}

Calls == {"c1", "c2"}

Absent == "<undefined>"

\* JS truthiness of an optional string: undefined and '' are falsy
Truthy(v) == v \notin {Absent, ""}

Kinds == {"amorce", "nexus"}

Priorities == {"normal", "high", "critical"}

ServiceIds == {Absent, "", "srv-test"}

IdempotencyKeys == {Absent, "", "idem-1"}

AgentIds == {Absent, "", "agent-js-007"}

\* status codes the remote service answers with
Statuses == {200, 302, 400, 404, 429, 500, 501, 502, 503, 504, 505}

\* a remote service that only ever answers with one of three statuses
FewStatuses == {200, 400, 503}

(***************************************************************************)
(* Response bodies                                                         *)
(***************************************************************************)
NoBody ==
    [tag |-> "none", transaction_id |-> Absent, tx_id |-> Absent,
     status |-> Absent, error |-> 0]

\* a body that is not JSON
Garbage ==
    [tag |-> "garbage", transaction_id |-> Absent, tx_id |-> Absent,
     status |-> Absent, error |-> 0]

JsonBody(tid, txid, st) ==
    [tag |-> "json", transaction_id |-> tid, tx_id |-> txid,
     status |-> st, error |-> 0]

\* the body sent along with an error status
ErrorBody(st) ==
    [tag |-> "json", transaction_id |-> Absent, tx_id |-> Absent,
     status |-> Absent, error |-> st]

SuccessBodies ==
    { JsonBody("tx-1", Absent, "success"),
      JsonBody(Absent, "ok-1", "success"),
      JsonBody(Absent, Absent, Absent),
      JsonBody("", Absent, "success"),
      Garbage }

BodiesFor(st) == IF st < 400 THEN SuccessBodies ELSE {ErrorBody(st)}

\* what one attempt comes back with: a response, or a network failure
NetFailure == [net |-> TRUE, status |-> 0, body |-> NoBody]

Response(st, b) == [net |-> FALSE, status |-> st, body |-> b]

\* the body a well-behaved service sends with a status
PlainBody(st) == IF st < 400 THEN JsonBody("tx-1", Absent, "success") ELSE ErrorBody(st)

\* three remote services: one that answers with any status and the plain
\* body, one that answers with few statuses and any body, and one that
\* always answers, with few statuses and the plain body
AnyStatusRemote == {NetFailure} \cup {Response(st, PlainBody(st)) : st \in Statuses}

AnyBodyRemote ==
    {NetFailure} \cup
    UNION {{Response(st, b) : b \in BodiesFor(st)} : st \in FewStatuses}

SteadyRemote == {Response(st, PlainBody(st)) : st \in FewStatuses}

(***************************************************************************)
(* JavaScript values and their JSON texts.  A value is a leaf holding a    *)
(* string (Absent for undefined), an object: its properties in insertion   *)
(* order, or an array: its elements in index order.  A JSON text is        *)
(* written as the tree that the text spells out, its members in the order  *)
(* in which they appear in the text.                                       *)
(***************************************************************************)
Leaf(s) == [s |-> s, kv |-> <<>>]

Undefined == Leaf(Absent)

Obj(kv) == [s |-> "<object>", kv |-> kv]

Pair(k, v) == [k |-> k, v |-> v]

Arr(items) == [s |-> "<array>", kv |-> [i \in 1..Len(items) |-> Pair("[]", items[i])]]

\* an undefined element of an array is written as null
Element(v) == IF v = Undefined THEN Leaf("null") ELSE v

\* the property names that occur, in the order of their UTF-16 code units
JsonKeys ==
    <<"consumer_agent_id", "data", "item", "memo", "note", "payload",
      "priority", "service_id">>

Rank(k) == CHOOSE i \in 1..Len(JsonKeys) : JsonKeys[i] = k

\* a property whose value is undefined is left out of a JSON text
Defined(kv) == SelectSeq(kv, LAMBDA p : p.v # Undefined)

RECURSIVE JsonTree(_)
\* JSON.stringify: the members in insertion order
JsonTree(v) ==
    IF v.s = "<array>"
    THEN Arr([i \in 1..Len(v.kv) |-> JsonTree(Element(v.kv[i].v))])
    ELSE IF v.s # "<object>" THEN v
    ELSE LET d == Defined(v.kv)
         IN  Obj([i \in 1..Len(d) |-> Pair(d[i].k, JsonTree(d[i].v))])

JsonStringify(v) == [text |-> JsonTree(v)]

\* JSON.parse: an object with the members of the text, in their order
JsonParse(t) == t.text

RECURSIVE StableTree(_)
\* fast-json-stable-stringify: the members sorted by key, at every level,
\* the elements of an array in their order
StableTree(v) ==
    IF v.s = "<array>"
    THEN Arr([i \in 1..Len(v.kv) |-> StableTree(Element(v.kv[i].v))])
    ELSE IF v.s # "<object>" THEN v
    ELSE LET d == SortSeq(Defined(v.kv), LAMBDA p, q : Rank(p.k) < Rank(q.k))
         IN  Obj([i \in 1..Len(d) |-> Pair(d[i].k, StableTree(d[i].v))])

StableStringify(v) == [text |-> StableTree(v)]

\* payloads of a transaction: one property, and properties that are not in
\* key order, one of them undefined
Payload1 == Obj(<<Pair("item", Leaf("p1"))>>)

Payload2 ==
    Obj(<<Pair("note", Leaf("n1")), Pair("memo", Undefined),
          Pair("item", Leaf("p2"))>>)

Payloads == {Payload1, Payload2}

(***************************************************************************)
(* Identity and signing (abstract Ed25519: a signature is determined by    *)
(* the private key and the signed bytes)                                   *)
(***************************************************************************)
TheIdentity == [privateKey |-> "sk-A", publicKey |-> "pk-A"]

OtherIdentity == [privateKey |-> "sk-B", publicKey |-> "pk-B"]

Identities == {TheIdentity, OtherIdentity}

GetPublicKeyPem(identity) ==
    [header |-> "-----BEGIN PUBLIC KEY-----", spki |-> identity.publicKey]

\* sha256 hex of the trimmed PEM
GetAgentId(identity) ==
    IF identity.publicKey = "pk-A" THEN "sha256(pem(pk-A))" ELSE "sha256(pem(?))"

Sign(identity, message) == [by |-> identity.privateKey, over |-> message]

\* crypto_sign_ed25519_sk_to_pk
SkToPk(privateKey) ==
    IF privateKey = "sk-A" THEN "pk-A"
    ELSE IF privateKey = "sk-B" THEN "pk-B" ELSE "pk-none"

\* a signature string that is not base64 text, and one that is the base64
\* text of fewer than 64 bytes
NotBase64Signature == [by |-> "%%%", over |-> [utf8 |-> [text |-> Leaf("")]]]

ShortSignature == [by |-> "short", over |-> [utf8 |-> [text |-> Leaf("")]]]

\* a public key of fewer than 32 bytes
ShortPublicKey == "pk-short"

\* sodium.from_base64(signatureBase64, ORIGINAL): throws on text that is
\* not base64
FromBase64(signatureBase64) ==
    [threw |-> signatureBase64 = NotBase64Signature, bytes |-> signatureBase64]

\* sodium.crypto_sign_verify_detached: throws on a signature or a public
\* key of the wrong length, otherwise tells whether the signature was made
\* over this message with the private key of this public key
CryptoSignVerifyDetached(signature, message, publicKey) ==
    [threw |-> signature = ShortSignature \/ publicKey = ShortPublicKey,
     valid |-> /\ SkToPk(signature.by) = publicKey
               /\ signature.over = message]

\* variant: the signature is decoded before the try block is entered
IdentityManagerVerifyDecodesFirst(message, signatureBase64, publicKey) ==
    LET signature == FromBase64(signatureBase64)
    IN  IF signature.threw THEN "threw"
        ELSE LET verified == CryptoSignVerifyDetached(signature.bytes, message,
                                                      publicKey)
             IN  IF verified.threw THEN "false"
                 ELSE IF verified.valid THEN "true" ELSE "false"

\* IdentityManager.verify: what the promise settles with, "threw" for a
\* rejection; both library calls are inside the try block
IdentityManagerVerify(message, signatureBase64, publicKey) ==
    LET signature == FromBase64(signatureBase64)
    IN  IF signature.threw THEN "false"
        ELSE LET verified == CryptoSignVerifyDetached(signature.bytes, message,
                                                      publicKey)
             IN  IF verified.threw THEN "false"
                 ELSE IF verified.valid THEN "true" ELSE "false"

\* IdentityManager.verify as its callers read it
Verify(message, signature, publicKey) ==
    IdentityManagerVerify(message, signature, publicKey) = "true"

\* variant: the text is that of JSON.stringify
GetCanonicalJsonBytesInsertionOrder(payload) == [utf8 |-> JsonStringify(payload)]

\* new TextEncoder().encode(stringify(payload))
GetCanonicalJsonBytes(payload) == [utf8 |-> StableStringify(payload)]

(***************************************************************************)
(* Client construction.  A URL is a string, written as the sequence of its *)
(* pieces: "http:", "/", "/", "host", ...                                  *)
(***************************************************************************)
HttpPrefix == <<"http:", "/", "/">>

HttpsPrefix == <<"https:", "/", "/">>

\* String.prototype.startsWith
StartsWith(str, prefix) ==
    Len(str) >= Len(prefix) /\ SubSeq(str, 1, Len(prefix)) = prefix

\* str.replace(/\/$/, ""): one slash at the end of the string is removed
StripTrailingSlash(str) ==
    IF Len(str) > 0 /\ str[Len(str)] = "/"
    THEN SubSeq(str, 1, Len(str) - 1)
    ELSE str

\* `${this.orchestratorUrl}/v1/a2a/transact`
TransactPath == <<"/", "v1", "/", "a2a", "/", "transact">>

\* `${this.directoryUrl}/api/v1/services/search?...`
SearchPath == <<"/", "api", "/", "v1", "/", "services", "/", "search">>

\* variant: only the directory URL is looked at
AmorceUrlsValidDirectoryOnly(directoryUrl, orchestratorUrl) ==
    StartsWith(directoryUrl, HttpPrefix) \/ StartsWith(directoryUrl, HttpsPrefix)

\* the two checks at the head of the AmorceClient constructor
AmorceUrlsValid(directoryUrl, orchestratorUrl) ==
    /\ StartsWith(directoryUrl, HttpPrefix) \/ StartsWith(directoryUrl, HttpsPrefix)
    /\ StartsWith(orchestratorUrl, HttpPrefix) \/ StartsWith(orchestratorUrl, HttpsPrefix)

\* the object the AmorceClient constructor leaves when it does not throw
AmorceClient(identity, directoryUrl, orchestratorUrl, agentId, apiKey) ==
    [kind |-> "amorce", identity |-> identity,
     directoryUrl |-> StripTrailingSlash(directoryUrl),
     orchestratorUrl |-> StripTrailingSlash(orchestratorUrl),
     agentId |-> IF Truthy(agentId) THEN agentId ELSE GetAgentId(identity),
     apiKey |-> apiKey]

NexusClient(identity, directoryUrl, orchestratorUrl, agentId, apiKey) ==
    [kind |-> "nexus", identity |-> identity,
     directoryUrl |-> StripTrailingSlash(directoryUrl),
     orchestratorUrl |-> StripTrailingSlash(orchestratorUrl),
     agentId |-> agentId, apiKey |-> apiKey]

(***************************************************************************)
(* Retry policies                                                          *)
(***************************************************************************)
\* retries: 3 in every retry option block
Retries == 3

\* variant: one retry too many
PRetryRunsAgainOnceMore(attemptNumber, threw) ==
    threw /\ attemptNumber <= Retries + 1

\* p-retry: a rejected attempt is run again while retries are left
\* (attemptNumber counts from 1); nothing the clients throw is an AbortError
PRetryRunsAgain(attemptNumber, threw) == threw /\ attemptNumber <= Retries

\* fetch-retry: a network failure, or a status listed in retryOn, is
\* followed by another attempt while attempt < retries (attempt counts from 0)
FetchRetryRunsAgain(attempt, out, retryOn) ==
    /\ attempt < Retries
    /\ (out.net \/ out.status \in retryOn)

\* variant: 503 left out of retryOn
NexusRetryOnWithout503 == {500, 502, 504, 429}

\* retryOn of NexusClient.transact
NexusRetryOn == {500, 502, 503, 504, 429}

\* NexusClient.discover passes no retryOn: fetch-retry's default is []
DefaultRetryOn == {}

\* minTimeout: 1e3
MinTimeout == 1000

\* maxTimeout: 1e4
MaxTimeout == 10000

\* the values Math.random() + 1 takes under randomize: true, in tenths
Randoms == 10..19

Min(a, b) == IF a <= b THEN a ELSE b

\* Math.round of a number given in tenths
RoundTenths(x) == (x + 5) \div 10

\* variant: the delay grows linearly with the attempt number
PRetryTimeoutLinear(attemptNumber, random) ==
    Min(RoundTenths(random * MinTimeout * attemptNumber), MaxTimeout)

\* p-retry: the delay of the timer set after attempt attemptNumber failed,
\* min(round(random * minTimeout * factor^(attemptNumber - 1)), maxTimeout)
\* with the library's factor of 2; random is in tenths, 10 without jitter
PRetryTimeout(attemptNumber, random) ==
    Min(RoundTenths(random * MinTimeout * 2^(attemptNumber - 1)), MaxTimeout)

\* retryDelay of NexusClient: Math.pow(2, attempt) * 1000, attempt from 0
NexusRetryDelay(attempt) == 2^attempt * 1000

(***************************************************************************)
(* Results of a call                                                       *)
(***************************************************************************)
Result(kind, st, tid, body, rstatus) ==
    [kind |-> kind, status_code |-> st, transaction_id |-> tid,
     body |-> body, result_status |-> rstatus]

Pending == Result("pending", 0, Absent, NoBody, Absent)

AmorceConfigError == Result("AmorceConfigError", 0, Absent, NoBody, Absent)

AmorceNetworkError == Result("AmorceNetworkError", 0, Absent, NoBody, Absent)

AmorceAPIError(statusCode, responseBody) ==
    Result("AmorceAPIError", statusCode, Absent, responseBody, Absent)

AmorceResponseImpl(transaction_id, status_code, json) ==
    Result("AmorceResponse", status_code, transaction_id, json,
           IF Truthy(json.status) THEN json.status ELSE "success")

isSuccess(r) == r.status_code >= 200 /\ r.status_code < 300

\* variant: every server error counts as retryable
isRetryableAnyServerError(r) == r.status_code = 429 \/ r.status_code >= 500

isRetryable(r) == r.status_code \in {429, 500, 502, 503, 504}

\* what the request callback handed to p-retry does with one outcome
Returned(res) == [threw |-> FALSE, type |-> "none", res |-> res]

Thrown(type, res) == [threw |-> TRUE, type |-> type, res |-> res]

(***************************************************************************)
(* AmorceClient.transact                                                   *)
(***************************************************************************)

\* variant: only an undefined service_id is rejected
ValidContractDefinedOnly(serviceContract) == serviceContract.service_id # Absent

\* if (!serviceContract.service_id): the guard of both clients
ValidContract(serviceContract) == Truthy(serviceContract.service_id)

\* idempotencyKey || uuidv4()
IdempotencyKeyOf(idempotencyKey, fresh) ==
    IF Truthy(idempotencyKey) THEN idempotencyKey ELSE fresh

AmorceRequestBody(cl, a) ==
    Obj(<<Pair("service_id", Leaf(a.service_id)),
          Pair("consumer_agent_id", Leaf(cl.agentId)),
          Pair("payload", a.payload),
          Pair("priority", Leaf(a.priority))>>)

\* variant: X-Amorce-Agent-ID always carries the id derived from the key
AmorceHeadersDerivedAgentId(cl, signature, key) ==
    IF Truthy(cl.apiKey)
    THEN [signature |-> signature, idempotency |-> key,
          agentId |-> GetAgentId(cl.identity),
          contentType |-> "application/json", apiKey |-> cl.apiKey]
    ELSE [signature |-> signature, idempotency |-> key,
          agentId |-> GetAgentId(cl.identity),
          contentType |-> "application/json"]

\* X-Agent-Signature, X-Amorce-Idempotency, X-Amorce-Agent-ID, Content-Type
\* and, with an api key, X-API-Key
AmorceHeaders(cl, signature, key) ==
    IF Truthy(cl.apiKey)
    THEN [signature |-> signature, idempotency |-> key, agentId |-> cl.agentId,
          contentType |-> "application/json", apiKey |-> cl.apiKey]
    ELSE [signature |-> signature, idempotency |-> key, agentId |-> cl.agentId,
          contentType |-> "application/json"]

\* variant: only the payload is signed, not the whole request body
AmorcePrepareSignsPayload(cl, a, fresh) ==
    LET key == IdempotencyKeyOf(a.idempotencyKey, fresh)
        requestBody == AmorceRequestBody(cl, a)
        signature == Sign(cl.identity, GetCanonicalJsonBytes(a.payload))
    IN  [key |-> key, body |-> requestBody,
         headers |-> AmorceHeaders(cl, signature, key),
         url |-> cl.orchestratorUrl \o TransactPath]

\* everything transact builds before the first attempt
AmorcePrepare(cl, a, fresh) ==
    LET key == IdempotencyKeyOf(a.idempotencyKey, fresh)
        requestBody == AmorceRequestBody(cl, a)
        signature == Sign(cl.identity, GetCanonicalJsonBytes(requestBody))
    IN  [key |-> key, body |-> requestBody,
         headers |-> AmorceHeaders(cl, signature, key),
         url |-> cl.orchestratorUrl \o TransactPath]

\* variant: a retry carries a key of its own
AmorceTransactRequestFreshKey(p, attemptNumber) ==
    [method |-> "POST", url |-> p.url,
     headers |-> IF attemptNumber = 1 THEN p.headers
                 ELSE [p.headers EXCEPT !.idempotency = "uuid-per-attempt"],
     body |-> JsonStringify(p.body)]

\* the request one attempt puts on the wire
AmorceTransactRequest(p, attemptNumber) ==
    [method |-> "POST", url |-> p.url, headers |-> p.headers,
     body |-> JsonStringify(p.body)]

\* variant: a status of 500 or more is not looked for
AmorceTransactCallbackPasses5xx(out) ==
    IF out.net THEN Thrown("Error", out)
    ELSE IF out.status \in {429, 503, 504} THEN Thrown("Error", out)
    ELSE IF out.status >= 400 /\ out.status < 500 /\ out.status # 429
         THEN Thrown("AmorceAPIError", out)
    ELSE Returned(out)

\* the function handed to pRetry, applied to the outcome of request()
AmorceTransactCallback(out) ==
    IF out.net THEN Thrown("Error", out)
    ELSE IF out.status \in {429, 503, 504} THEN Thrown("Error", out)
    ELSE IF out.status >= 400 /\ out.status < 500 /\ out.status # 429
         THEN Thrown("AmorceAPIError", out)
    ELSE IF out.status >= 500 THEN Thrown("Error", out)
    ELSE Returned(out)

\* variant: the identifier of the server is ignored
TransactionIdAlwaysKey(jsonData, key) == key

\* jsonData.transaction_id || key
TransactionIdOf(jsonData, key) ==
    IF Truthy(jsonData.transaction_id) THEN jsonData.transaction_id ELSE key

\* variant: the catch block rethrows every failure as an API error
AmorceTransactSettleAllApi(p, cb) ==
    IF cb.threw
    THEN AmorceAPIError(cb.res.status, cb.res.body)
    ELSE IF cb.res.body.tag # "json"
         THEN AmorceNetworkError
         ELSE AmorceResponseImpl(TransactionIdOf(cb.res.body, p.key),
                                 cb.res.status, cb.res.body)

\* what transact does with the settled pRetry promise: the mapping of the
\* response, and the catch block
AmorceTransactSettle(p, cb) ==
    IF cb.threw
    THEN IF cb.type = "AmorceAPIError"
         THEN AmorceAPIError(cb.res.status, cb.res.body)
         ELSE AmorceNetworkError
    ELSE IF cb.res.body.tag # "json"
         THEN AmorceNetworkError
         ELSE AmorceResponseImpl(TransactionIdOf(cb.res.body, p.key),
                                 cb.res.status, cb.res.body)

(***************************************************************************)
(* AmorceClient.discover                                                   *)
(***************************************************************************)
AmorceDiscoverPrepare(cl, a) ==
    [key |-> Absent, body |-> NoBody,
     headers |-> [contentType |-> "application/json"],
     url |-> cl.directoryUrl \o SearchPath]

DiscoverRequest(p, attemptNumber) ==
    [method |-> "GET", url |-> p.url, headers |-> p.headers, body |-> p.body]

AmorceDiscoverCallback(out) ==
    IF out.net THEN Thrown("Error", out)
    ELSE IF out.status \in {429, 503, 504} THEN Thrown("Error", out)
    ELSE IF out.status # 200 THEN Thrown("AmorceAPIError", out)
    ELSE Returned(out)

AmorceDiscoverSettle(p, cb) ==
    IF cb.threw
    THEN IF cb.type = "AmorceAPIError"
         THEN AmorceAPIError(cb.res.status, cb.res.body)
         ELSE AmorceNetworkError
    ELSE IF cb.res.body.tag # "json"
         THEN AmorceNetworkError
         ELSE Result("json", cb.res.status, Absent, cb.res.body, Absent)

(***************************************************************************)
(* NexusEnvelope and NexusClient                                           *)
(***************************************************************************)
\* new NexusEnvelope(sender, payload, priority): the constructor declares
\* (sender, payload) only, a third argument is not stored
NexusEnvelope(sender, payload, priority, id, timestamp) ==
    [natp_version |-> "0.1.0", id |-> id, timestamp |-> timestamp,
     sender |-> sender, payload |-> payload,
     settlement |-> [amount |-> 0, currency |-> "USD", facilitation_fee |-> 0]]

(***************************************************************************)
(* The PEM text of a public key, character by character: a text is the     *)
(* sequence of its characters, the two marker lines being one piece each,  *)
(* and a byte is a number of 0..255                                        *)
(***************************************************************************)
\* the length of an Ed25519 public key
KeyLength == 32

\* the characters of base64_variants.ORIGINAL, by their value
Base64Alphabet ==
    <<"A", "B", "C", "D", "E", "F", "G", "H", "I", "J", "K", "L", "M", "N", "O", "P",
      "Q", "R", "S", "T", "U", "V", "W", "X", "Y", "Z", "a", "b", "c", "d", "e", "f",
      "g", "h", "i", "j", "k", "l", "m", "n", "o", "p", "q", "r", "s", "t", "u", "v",
      "w", "x", "y", "z", "0", "1", "2", "3", "4", "5", "6", "7", "8", "9", "+", "/">>

Base64Char(n) == Base64Alphabet[n + 1]

IsBase64Char(ch) == \E i \in 1..64 : Base64Alphabet[i] = ch

Base64Value(ch) == (CHOOSE i \in 1..64 : Base64Alphabet[i] = ch) - 1

RECURSIVE BytesToBase64(_)
\* sodium.to_base64(bytes, ORIGINAL): four characters for three bytes, the
\* last group padded with '='
BytesToBase64(bytes) ==
    IF Len(bytes) = 0 THEN <<>>
    ELSE IF Len(bytes) = 1
    THEN <<Base64Char(bytes[1] \div 4), Base64Char((bytes[1] % 4) * 16), "=", "=">>
    ELSE IF Len(bytes) = 2
    THEN LET n == bytes[1] * 256 + bytes[2]
         IN  <<Base64Char(n \div 1024), Base64Char((n \div 16) % 64),
               Base64Char((n % 16) * 4), "=">>
    ELSE LET n == bytes[1] * 65536 + bytes[2] * 256 + bytes[3]
         IN  <<Base64Char(n \div 262144), Base64Char((n \div 4096) % 64),
               Base64Char((n \div 64) % 64), Base64Char(n % 64)>>
                 \o BytesToBase64(SubSeq(bytes, 4, Len(bytes)))

RECURSIVE SextetsToBytes(_)
\* the bytes of a sequence of base64 values
SextetsToBytes(values) ==
    IF Len(values) < 2 THEN <<>>
    ELSE IF Len(values) = 2
    THEN <<(values[1] * 64 + values[2]) \div 16>>
    ELSE IF Len(values) = 3
    THEN LET n == values[1] * 4096 + values[2] * 64 + values[3]
         IN  <<n \div 1024, (n \div 4) % 256>>
    ELSE LET n == values[1] * 262144 + values[2] * 4096 + values[3] * 64 + values[4]
         IN  <<n \div 65536, (n \div 256) % 256, n % 256>>
                 \o SextetsToBytes(SubSeq(values, 5, Len(values)))

\* sodium.from_base64(text, ORIGINAL): throws unless the text is groups of four
\* characters of the alphabet, the last with at most two '=' at its end
Base64ToBytes(chars) ==
    LET n == Len(chars)
        padding == IF n >= 2 /\ chars[n] = "=" /\ chars[n - 1] = "=" THEN 2
                   ELSE IF n >= 1 /\ chars[n] = "=" THEN 1 ELSE 0
        body == SubSeq(chars, 1, n - padding)
    IN  IF n % 4 # 0 \/ \E i \in 1..Len(body) : ~IsBase64Char(body[i])
        THEN [threw |-> TRUE, bytes |-> <<>>]
        ELSE [threw |-> FALSE,
              bytes |-> SextetsToBytes([i \in 1..Len(body) |-> Base64Value(body[i])])]

\* the ASN.1 header of an Ed25519 SubjectPublicKeyInfo
SpkiPrefix == <<48, 42, 48, 5, 6, 3, 43, 101, 112, 3, 33, 0>>

PemHeader == "-----BEGIN PUBLIC KEY-----"

PemFooter == "-----END PUBLIC KEY-----"

\* getPublicKeyPem, of the bytes of this.publicKey
PublicKeyPem(publicKey) ==
    <<PemHeader, "\n">> \o BytesToBase64(SpkiPrefix \o publicKey)
        \o <<"\n", PemFooter, "\n">>

\* String.replace(piece, ''): the first occurrence is taken out
ReplaceFirst(text, piece) ==
    IF \E i \in 1..Len(text) : text[i] = piece
    THEN LET first == CHOOSE i \in 1..Len(text) :
                         /\ text[i] = piece
                         /\ \A j \in 1..(i - 1) : text[j] # piece
         IN  SubSeq(text, 1, first - 1) \o SubSeq(text, first + 1, Len(text))
    ELSE text

\* not matched by \s
NotWhitespace(ch) == ch \notin {" ", "\n", "\t", "\r"}

\* variant: the key is taken from the start of the decoded bytes
PemKeyBytesFromStart(pem) ==
    LET b64 == SelectSeq(ReplaceFirst(ReplaceFirst(pem, PemHeader), PemFooter),
                         NotWhitespace)
        fullBytes == Base64ToBytes(b64)
    IN  IF fullBytes.threw THEN fullBytes
        ELSE IF Len(fullBytes.bytes) > KeyLength
        THEN [fullBytes EXCEPT !.bytes = SubSeq(@, 1, KeyLength)]
        ELSE fullBytes

\* pemToBytes, of the characters of the PEM: the last 32 of the decoded bytes
PemKeyBytes(pem) ==
    LET b64 == SelectSeq(ReplaceFirst(ReplaceFirst(pem, PemHeader), PemFooter),
                         NotWhitespace)
        fullBytes == Base64ToBytes(b64)
    IN  IF fullBytes.threw THEN fullBytes
        ELSE IF Len(fullBytes.bytes) > KeyLength
        THEN [fullBytes EXCEPT !.bytes = SubSeq(@, Len(@) - KeyLength + 1, Len(@))]
        ELSE fullBytes

\* new AmorceEnvelope(sender, payload, priority), for a valid priority
AmorceEnvelope(sender, payload, priority, id, timestamp) ==
    [natp_version |-> "0.1.0", id |-> id, priority |-> priority,
     timestamp |-> timestamp, sender |-> sender, payload |-> payload,
     settlement |-> [amount |-> 0, currency |-> "USD", facilitation_fee |-> 0]]

\* variant: the priority is stored as given, as NexusEnvelope takes it
NewAmorceEnvelopeUnchecked(sender, payload, priority, id, timestamp) ==
    LET given == IF priority = Absent THEN "normal" ELSE priority
    IN  [thrown |-> "none",
         envelope |-> AmorceEnvelope(sender, payload, given, id, timestamp)]

\* new AmorceEnvelope(sender, payload, priority) with any third argument:
\* what is thrown and, when nothing is, the object; an undefined priority
\* takes the default 'normal'
NewAmorceEnvelope(sender, payload, priority, id, timestamp) ==
    LET given == IF priority = Absent THEN "normal" ELSE priority
    IN  IF given \notin {"normal", "high", "critical"}
        THEN [thrown |-> "AmorceValidationError"]
        ELSE [thrown |-> "none",
              envelope |-> AmorceEnvelope(sender, payload, given, id, timestamp)]

\* variant: the settlement is not part of the signed data
GetCanonicalJsonWithoutSettlement(envelope) ==
    [canonical |->
        [f \in DOMAIN envelope \ {"signature", "settlement"} |->
            IF f = "payload" THEN StableTree(envelope[f]) ELSE envelope[f]]]

\* { signature, ...dataToSign } = this; stringify(dataToSign): every own
\* property but the signature, the payload with its members in key order
GetCanonicalJson(envelope) ==
    [canonical |->
        [f \in DOMAIN envelope \ {"signature"} |->
            IF f = "payload" THEN StableTree(envelope[f]) ELSE envelope[f]]]

\* variant: the bytes signed are those of the whole object, a signature it
\* already carries included
SignEnvelopeOverAll(envelope, identity) ==
    [f \in DOMAIN envelope \cup {"signature"} |->
        IF f = "signature"
        THEN Sign(identity, [canonical |-> envelope])
        ELSE envelope[f]]

\* this.signature = await identity.sign(this.getCanonicalJson())
SignEnvelope(envelope, identity) ==
    [f \in DOMAIN envelope \cup {"signature"} |->
        IF f = "signature" THEN Sign(identity, GetCanonicalJson(envelope))
        ELSE envelope[f]]

CreateEnvelope(cl, payload, priority, id, timestamp) ==
    LET sender == [public_key |-> GetPublicKeyPem(cl.identity),
                   agent_id |-> cl.agentId]
    IN  SignEnvelope(NexusEnvelope(sender, payload, priority, id, timestamp),
                     cl.identity)

\* a PEM whose body is not Base64
NotBase64Pem == [header |-> "-----BEGIN PUBLIC KEY-----", spki |-> "%%%"]

\* pemToBytes: the armour removed, the Base64 decoded (which throws on text
\* that is not Base64) and the last 32 bytes taken
PemToBytes(pem) == [threw |-> pem = NotBase64Pem, bytes |-> pem.spki]

\* what a verify() call of an envelope comes to, and whether it got as far
\* as IdentityManager.verify
Verdict(outcome, checked) == [result |-> outcome, checked |-> checked]

\* variant: the missing signature is not looked for, the check runs on
\* undefined and fails
NexusEnvelopeVerifyUnguarded(envelope) ==
    IF "signature" \notin DOMAIN envelope THEN Verdict("false", TRUE)
    ELSE LET publicKeyBytes == PemToBytes(envelope.sender.public_key)
         IN  IF publicKeyBytes.threw THEN Verdict("false", FALSE)
             ELSE IF Verify(GetCanonicalJson(envelope), envelope.signature,
                            publicKeyBytes.bytes)
                  THEN Verdict("true", TRUE) ELSE Verdict("false", TRUE)

\* NexusEnvelope.verify
NexusEnvelopeVerify(envelope) ==
    IF "signature" \notin DOMAIN envelope THEN Verdict("false", FALSE)
    ELSE LET publicKeyBytes == PemToBytes(envelope.sender.public_key)
         IN  IF publicKeyBytes.threw THEN Verdict("false", FALSE)
             ELSE IF Verify(GetCanonicalJson(envelope), envelope.signature,
                            publicKeyBytes.bytes)
                  THEN Verdict("true", TRUE) ELSE Verdict("false", TRUE)

\* AmorceEnvelope.verify
AmorceEnvelopeVerify(envelope) ==
    IF "signature" \notin DOMAIN envelope
    THEN Verdict("AmorceValidationError", FALSE)
    ELSE LET publicKeyBytes == PemToBytes(envelope.sender.public_key)
         IN  IF publicKeyBytes.threw THEN Verdict("AmorceValidationError", FALSE)
             ELSE IF Verify(GetCanonicalJson(envelope), envelope.signature,
                            publicKeyBytes.bytes)
                  THEN Verdict("true", TRUE) ELSE Verdict("false", TRUE)

NexusHeaders(cl) ==
    IF Truthy(cl.apiKey)
    THEN [contentType |-> "application/json", atpKey |-> cl.apiKey]
    ELSE [contentType |-> "application/json"]

NexusPrepare(cl, a, id, timestamp) ==
    LET transactionPayload ==
            Obj(<<Pair("service_id", Leaf(a.service_id)),
                  Pair("consumer_agent_id", Leaf(cl.agentId)),
                  Pair("data", a.payload)>>)
    IN  [key |-> Absent,
         body |-> CreateEnvelope(cl, transactionPayload, a.priority, id, timestamp),
         headers |-> NexusHeaders(cl),
         url |-> cl.orchestratorUrl \o TransactPath]

\* variant: a retry sends an envelope with a timestamp of its own
NexusTransactRequestRestamped(p, attempt) ==
    [method |-> "POST", url |-> p.url, headers |-> p.headers,
     body |-> IF attempt = 0 THEN p.body
              ELSE [p.body EXCEPT !.timestamp = @ + attempt]]

\* the request fetch-retry puts on the wire at each attempt: the init object
\* of the one fetch call
NexusTransactRequest(p, attempt) ==
    [method |-> "POST", url |-> p.url, headers |-> p.headers, body |-> p.body]

\* response.ok
Ok(out) == out.status >= 200 /\ out.status < 300

\* variant: a response that is not ok is reported as null, like a failure
\* of the network
NexusTransactSettleNullOnStatus(out) ==
    IF out.net THEN Result("null", 0, Absent, NoBody, Absent)
    ELSE IF ~Ok(out) THEN Result("null", 0, Absent, NoBody, Absent)
    ELSE IF out.body.tag # "json" THEN Result("null", 0, Absent, NoBody, Absent)
    ELSE Result("json", out.status, Absent, out.body, Absent)

\* what transact returns once fetch-retry has settled with `out`
NexusTransactSettle(out) ==
    IF out.net THEN Result("null", 0, Absent, NoBody, Absent)
    ELSE IF ~Ok(out) THEN Result("errorObject", out.status, Absent, out.body, Absent)
    ELSE IF out.body.tag # "json" THEN Result("null", 0, Absent, NoBody, Absent)
    ELSE Result("json", out.status, Absent, out.body, Absent)

NexusDiscoverPrepare(cl, a) ==
    [key |-> Absent, body |-> NoBody,
     headers |-> [contentType |-> "application/json"],
     url |-> cl.directoryUrl \o SearchPath]

NexusDiscoverSettle(out) ==
    IF out.net THEN Result("emptyList", 0, Absent, NoBody, Absent)
    ELSE IF ~Ok(out) THEN Result("emptyList", 0, Absent, NoBody, Absent)
    ELSE IF out.body.tag # "json" THEN Result("emptyList", 0, Absent, NoBody, Absent)
    ELSE Result("json", out.status, Absent, out.body, Absent)

(***************************************************************************)
(* State                                                                   *)
(*   client   the client object all calls are made on                      *)
(*   remote   the outcomes the remote service can produce for an attempt   *)
(*   pc[c]    unused | start | ready | wait | backoff | done               *)
(*   op[c]    transact | discover                                          *)
(*   args[c]  the arguments of the call                                    *)
(*   prep[c]  what the call built before its first attempt                 *)
(*   sent[c]  the requests the call has put on the wire, in order          *)
(*   hist[c]  the outcomes of its attempts, in order                       *)
(*   result[c] what the call returned or threw                             *)
(*   signs[c], uuids[c]  number of identity.sign / uuidv4 invocations      *)
(***************************************************************************)
DirectoryUrl == HttpPrefix \o <<"directory">>

OrchestratorUrl == HttpPrefix \o <<"orchestrator">>

Timestamps == {1764500000}

Client(kind, agentId) ==
    IF kind = "amorce"
    THEN AmorceClient(TheIdentity, DirectoryUrl, OrchestratorUrl, agentId, Absent)
    ELSE NexusClient(TheIdentity, DirectoryUrl, OrchestratorUrl, agentId, Absent)

NoPrep ==
    [key |-> Absent, body |-> NoBody, headers |-> [contentType |-> Absent],
     url |-> <<>>]

DiscoverArgs ==
    [service_id |-> Absent, payload |-> Leaf("restaurant"), priority |-> "normal",
     idempotencyKey |-> Absent]

\* a string with a high surrogate that no low surrogate follows
LoneSurrogate == "<U+D800>"

\* encodeURIComponent(serviceType) throws URIError on such a string
EncodeURIComponentThrows(serviceType) == serviceType = LoneSurrogate

\* discover(serviceType) with a string that is not well-formed UTF-16
MalformedDiscoverArgs == [DiscoverArgs EXCEPT !.payload = Leaf(LoneSurrogate)]

\* arguments of a transact call on a client of the given kind
TransactArgs(kind) ==
    [service_id : ServiceIds, payload : Payloads, priority : Priorities,
     idempotencyKey : IF kind = "amorce" THEN IdempotencyKeys ELSE {Absent}]

\* a transact call with a priority that is none of the three levels
InvalidPriorityArgs ==
    [service_id |-> "srv-test", payload |-> Payload1, priority |-> "urgent",
     idempotencyKey |-> Absent]

\* the arguments used against the remote service that answers with any status
PlainArgs(kind) ==
    { a \in TransactArgs(kind) :
        /\ a.service_id = "srv-test" /\ a.priority = "high"
        /\ a.payload = Payload1
        /\ a.idempotencyKey # "" }

\* arguments of two transact calls that run concurrently
ConcurrentArgs(kind) ==
    { a \in [Calls -> TransactArgs(kind)] :
        /\ a["c1"].service_id = "srv-test" /\ a["c2"].service_id = "srv-test"
        /\ a["c1"].priority = "normal" /\ a["c2"].priority = "high"
        /\ a["c1"].payload = Payload1 /\ a["c2"].payload = Payload2
        /\ a["c1"].idempotencyKey = Absent /\ a["c2"].idempotencyKey # "" }

OneCall(o, a) ==
    /\ pc = [c \in Calls |-> IF c = "c1" THEN "start" ELSE "unused"]
    /\ op = [c \in Calls |-> IF c = "c1" THEN o ELSE "transact"]
    /\ args = [c \in Calls |-> IF c = "c1" THEN a ELSE DiscoverArgs]

\* no call has done anything yet
NothingDone ==
    /\ prep = [c \in Calls |-> NoPrep]
    /\ sent = [c \in Calls |-> <<>>]
    /\ hist = [c \in Calls |-> <<>>]
    /\ result = [c \in Calls |-> Pending]
    /\ signs = [c \in Calls |-> 0]
    /\ uuids = [c \in Calls |-> 0]
    /\ delays = [c \in Calls |-> <<>>]

\* no object is being examined on its own
NoProbe == [asked |-> {}]

Init ==
    /\ \E kind \in Kinds, agentId \in AgentIds :
        /\ client = Client(kind, agentId)
        /\ ctor = [state |-> "built", kind |-> kind,
                   directoryUrl |-> DirectoryUrl, orchestratorUrl |-> OrchestratorUrl,
                   agentId |-> agentId, thrown |-> Pending]
        /\ \/ /\ agentId = "agent-js-007"
              /\ remote = AnyStatusRemote
              /\ \/ \E a \in PlainArgs(kind) : OneCall("transact", a)
                 \/ OneCall("discover", DiscoverArgs)
           \/ /\ remote = AnyBodyRemote
              /\ \/ \E a \in TransactArgs(kind) : OneCall("transact", a)
                 \/ OneCall("discover", DiscoverArgs)
                 \/ OneCall("discover", MalformedDiscoverArgs)
                 \/ OneCall("transact", InvalidPriorityArgs)
           \/ /\ agentId = Absent
              /\ remote = SteadyRemote
              /\ pc = [c \in Calls |-> "start"]
              /\ op = [c \in Calls |-> "transact"]
              /\ args \in ConcurrentArgs(kind)
    /\ probe = NoProbe
    /\ NothingDone

Is(c, kind, o) == client.kind = kind /\ op[c] = o

\* the call ends at once, without having built anything
Fail(c, r) ==
    /\ pc' = [pc EXCEPT ![c] = "done"]
    /\ result' = [result EXCEPT ![c] = r]
    /\ UNCHANGED <<client, remote, op, args, prep, sent, hist, signs, uuids,
                   delays, ctor, probe>>

\* variant: signing clears the private key of the identity
BuiltWipesKey(c, p, nsigns, nuuids) ==
    /\ pc' = [pc EXCEPT ![c] = "ready"]
    /\ prep' = [prep EXCEPT ![c] = p]
    /\ signs' = [signs EXCEPT ![c] = @ + nsigns]
    /\ uuids' = [uuids EXCEPT ![c] = @ + nuuids]
    /\ client' = IF nsigns > 0
                 THEN [client EXCEPT !.identity.privateKey = "sk-wiped"]
                 ELSE client
    /\ UNCHANGED <<remote, op, args, sent, hist, result, delays, ctor, probe>>

\* the call has built its request and is ready for its first attempt; the
\* identity is read, by sign, getPublicKeyPem and getAgentId, and not written
Built(c, p, nsigns, nuuids) ==
    /\ pc' = [pc EXCEPT ![c] = "ready"]
    /\ prep' = [prep EXCEPT ![c] = p]
    /\ signs' = [signs EXCEPT ![c] = @ + nsigns]
    /\ uuids' = [uuids EXCEPT ![c] = @ + nuuids]
    /\ UNCHANGED <<client, remote, op, args, sent, hist, result, delays, ctor, probe>>

\* an attempt is started: the first one at once, a later one when the
\* backoff timer of the retry library fires
Send(c, req) ==
    /\ pc[c] \in {"ready", "backoff"}
    /\ pc' = [pc EXCEPT ![c] = "wait"]
    /\ sent' = [sent EXCEPT ![c] = Append(@, req)]
    /\ UNCHANGED <<client, remote, op, args, prep, hist, result, signs, uuids,
                   delays, ctor, probe>>

\* variant: a call whose last attempt failed on the network is left without
\* a result
SettleHangsWhenExhausted(c, out, again, r, delay) ==
    /\ hist' = [hist EXCEPT ![c] = Append(@, out)]
    /\ delays' = [delays EXCEPT ![c] = IF again THEN Append(@, delay) ELSE @]
    /\ pc' = [pc EXCEPT ![c] = IF again THEN "backoff"
                               ELSE IF out.net THEN "hung" ELSE "done"]
    /\ result' = [result EXCEPT ![c] = IF again \/ out.net THEN @ ELSE r]
    /\ UNCHANGED <<client, remote, op, args, prep, sent, signs, uuids, ctor, probe>>

\* the outcome of the attempt in flight arrives; the call either schedules
\* another attempt, after a timer of the given delay before jitter, or ends
\* with result r
Settle(c, out, again, r, delay) ==
    /\ hist' = [hist EXCEPT ![c] = Append(@, out)]
    /\ delays' = [delays EXCEPT ![c] = IF again THEN Append(@, delay) ELSE @]
    /\ pc' = [pc EXCEPT ![c] = IF again THEN "backoff" ELSE "done"]
    /\ result' = [result EXCEPT ![c] = IF again THEN @ ELSE r]
    /\ UNCHANGED <<client, remote, op, args, prep, sent, signs, uuids, ctor, probe>>

AmorceTransactBegin(c) ==
    /\ pc[c] = "start" /\ Is(c, "amorce", "transact")
    /\ IF ~ValidContract(args[c])
       THEN Fail(c, AmorceConfigError)
       ELSE \E fresh \in Uuids :
               Built(c, AmorcePrepare(client, args[c], fresh), 1,
                     IF Truthy(args[c].idempotencyKey) THEN 0 ELSE 1)

\* variant: the headers live on the client object, so an attempt takes the
\* headers of whichever call has built its request
AmorceTransactAttemptSharedHeaders(c) ==
    /\ Is(c, "amorce", "transact")
    /\ \E d \in Calls :
          /\ pc[d] \notin {"unused", "start"} /\ prep[d] # NoPrep
          /\ Send(c, AmorceTransactRequest(
                      [prep[c] EXCEPT !.headers = prep[d].headers],
                      Len(sent[c]) + 1))

AmorceTransactAttempt(c) ==
    /\ Is(c, "amorce", "transact")
    /\ Send(c, AmorceTransactRequest(prep[c], Len(sent[c]) + 1))

AmorceTransactResponse(c, out) ==
    /\ pc[c] = "wait" /\ Is(c, "amorce", "transact")
    /\ LET cb == AmorceTransactCallback(out)
       IN  Settle(c, out, PRetryRunsAgain(Len(sent[c]), cb.threw),
                  AmorceTransactSettle(prep[c], cb),
                  PRetryTimeout(Len(sent[c]), 10))

\* the URL is built before the try block is entered
AmorceDiscoverBegin(c) ==
    /\ pc[c] = "start" /\ Is(c, "amorce", "discover")
    /\ IF EncodeURIComponentThrows(args[c].payload.s)
       THEN Fail(c, Result("URIError", 0, Absent, NoBody, Absent))
       ELSE Built(c, AmorceDiscoverPrepare(client, args[c]), 0, 0)

AmorceDiscoverAttempt(c) ==
    /\ Is(c, "amorce", "discover")
    /\ Send(c, DiscoverRequest(prep[c], Len(sent[c]) + 1))

AmorceDiscoverResponse(c, out) ==
    /\ pc[c] = "wait" /\ Is(c, "amorce", "discover")
    /\ LET cb == AmorceDiscoverCallback(out)
       IN  Settle(c, out, PRetryRunsAgain(Len(sent[c]), cb.threw),
                  AmorceDiscoverSettle(prep[c], cb),
                  PRetryTimeout(Len(sent[c]), 10))

NexusTransactBegin(c) ==
    /\ pc[c] = "start" /\ Is(c, "nexus", "transact")
    /\ IF ~ValidContract(args[c])
       THEN Fail(c, Result("null", 0, Absent, NoBody, Absent))
       ELSE \E id \in Uuids, ts \in Timestamps :
               Built(c, NexusPrepare(client, args[c], id, ts), 1, 1)

NexusTransactAttempt(c) ==
    /\ Is(c, "nexus", "transact")
    /\ Send(c, NexusTransactRequest(prep[c], Len(sent[c])))

NexusTransactResponse(c, out) ==
    /\ pc[c] = "wait" /\ Is(c, "nexus", "transact")
    /\ Settle(c, out, FetchRetryRunsAgain(Len(sent[c]) - 1, out, NexusRetryOn),
              NexusTransactSettle(out), NexusRetryDelay(Len(sent[c]) - 1))

\* the URL is built before the try block is entered
NexusDiscoverBegin(c) ==
    /\ pc[c] = "start" /\ Is(c, "nexus", "discover")
    /\ IF EncodeURIComponentThrows(args[c].payload.s)
       THEN Fail(c, Result("URIError", 0, Absent, NoBody, Absent))
       ELSE Built(c, NexusDiscoverPrepare(client, args[c]), 0, 0)

NexusDiscoverAttempt(c) ==
    /\ Is(c, "nexus", "discover")
    /\ Send(c, DiscoverRequest(prep[c], Len(sent[c])))

NexusDiscoverResponse(c, out) ==
    /\ pc[c] = "wait" /\ Is(c, "nexus", "discover")
    /\ Settle(c, out, FetchRetryRunsAgain(Len(sent[c]) - 1, out, DefaultRetryOn),
              NexusDiscoverSettle(out), NexusRetryDelay(Len(sent[c]) - 1))

Next ==
    \E c \in Calls :
        \/ AmorceTransactBegin(c)
        \/ AmorceTransactAttempt(c)
        \/ \E out \in remote : AmorceTransactResponse(c, out)
        \/ AmorceDiscoverBegin(c)
        \/ AmorceDiscoverAttempt(c)
        \/ \E out \in remote : AmorceDiscoverResponse(c, out)
        \/ NexusTransactBegin(c)
        \/ NexusTransactAttempt(c)
        \/ \E out \in remote : NexusTransactResponse(c, out)
        \/ NexusDiscoverBegin(c)
        \/ NexusDiscoverAttempt(c)
        \/ \E out \in remote : NexusDiscoverResponse(c, out)

Spec == Init /\ [][Next]_vars

\* the event loop runs a pending callback whenever there is one: a call
\* that can take a step is not left waiting forever (every attempt
\* completes, every backoff timer fires)
SpecLive == Init /\ [][Next]_vars /\ WF_vars(Next)

(***************************************************************************)
(* Construction of a client from caller-supplied URLs, followed by one     *)
(* call on the client that was constructed                                 *)
(*   ctor   the constructor call: its arguments, whether it has run, and   *)
(*          what it threw                                                  *)
(***************************************************************************)
Schemes == {HttpPrefix, HttpsPrefix, <<"ftp:", "/", "/">>, <<>>}

Hosts == {<<>>, <<"host">>}

Slashes(n) == [i \in 1..n |-> "/"]

\* the URLs a caller passes: with or without scheme and host, and with up
\* to MaxSlashes further slashes at the end
Urls == {s \o h \o Slashes(n) : s \in Schemes, h \in Hosts, n \in 0..MaxSlashes}

\* no client object exists
NoClient ==
    [kind |-> "none", identity |-> TheIdentity, directoryUrl |-> <<>>,
     orchestratorUrl |-> <<>>, agentId |-> Absent, apiKey |-> Absent]

\* a remote service that answers every request with 200
HealthyRemote == {Response(200, PlainBody(200))}

InitConstruct ==
    /\ client = NoClient
    /\ remote = HealthyRemote
    /\ ctor \in [state : {"new"}, kind : Kinds, directoryUrl : Urls,
                 orchestratorUrl : Urls, agentId : {Absent}, thrown : {Pending}]
    /\ \/ \E a \in PlainArgs(ctor.kind) : OneCall("transact", a)
       \/ OneCall("discover", DiscoverArgs)
    /\ probe = NoProbe
    /\ NothingDone

\* new AmorceClient(identity, directoryUrl, orchestratorUrl)
AmorceConstruct ==
    /\ ctor.state = "new" /\ ctor.kind = "amorce"
    /\ IF AmorceUrlsValid(ctor.directoryUrl, ctor.orchestratorUrl)
       THEN /\ client' = AmorceClient(TheIdentity, ctor.directoryUrl,
                                      ctor.orchestratorUrl, ctor.agentId, Absent)
            /\ ctor' = [ctor EXCEPT !.state = "built"]
       ELSE /\ ctor' = [ctor EXCEPT !.state = "threw", !.thrown = AmorceConfigError]
            /\ UNCHANGED client
    /\ UNCHANGED <<remote, pc, op, args, prep, sent, hist, result, signs, uuids,
                   delays, probe>>

\* new NexusClient(identity, directoryUrl, orchestratorUrl)
NexusConstruct ==
    /\ ctor.state = "new" /\ ctor.kind = "nexus"
    /\ client' = NexusClient(TheIdentity, ctor.directoryUrl,
                             ctor.orchestratorUrl, ctor.agentId, Absent)
    /\ ctor' = [ctor EXCEPT !.state = "built"]
    /\ UNCHANGED <<remote, pc, op, args, prep, sent, hist, result, signs, uuids,
                   delays, probe>>

NextConstruct == AmorceConstruct \/ NexusConstruct \/ Next

SpecConstruct == InitConstruct /\ [][NextConstruct]_vars

(***************************************************************************)
(* The predicates of a response object, for any status code                *)
(*   probe   the object under examination, the methods called on it so far *)
(*           and what they returned                                        *)
(***************************************************************************)
\* largest status code a response object is built with
MaxStatus == 600

StatusCodes == 0..MaxStatus

\* no client is at work
Idle ==
    /\ client = NoClient
    /\ remote = HealthyRemote
    /\ ctor = [state |-> "threw", kind |-> "none", directoryUrl |-> <<>>,
               orchestratorUrl |-> <<>>, agentId |-> Absent, thrown |-> Pending]
    /\ pc = [c \in Calls |-> "unused"]
    /\ op = [c \in Calls |-> "transact"]
    /\ args = [c \in Calls |-> DiscoverArgs]
    /\ NothingDone

InitStatus ==
    /\ \E s \in StatusCodes :
          probe = [response |-> AmorceResponseImpl("tx-1", s, PlainBody(200)),
                   asked |-> {}, success |-> FALSE, retryable |-> FALSE]
    /\ Idle

\* response.isSuccess()
CallIsSuccess ==
    /\ "isSuccess" \notin probe.asked
    /\ probe' = [probe EXCEPT !.asked = @ \cup {"isSuccess"},
                              !.success = isSuccess(probe.response)]
    /\ UNCHANGED <<client, remote, pc, op, args, prep, sent, hist, result, signs,
                   uuids, delays, ctor>>

\* response.isRetryable()
CallIsRetryable ==
    /\ "isRetryable" \notin probe.asked
    /\ probe' = [probe EXCEPT !.asked = @ \cup {"isRetryable"},
                              !.retryable = isRetryable(probe.response)]
    /\ UNCHANGED <<client, remote, pc, op, args, prep, sent, hist, result, signs,
                   uuids, delays, ctor>>

NextStatus == CallIsSuccess \/ CallIsRetryable

SpecStatus == InitStatus /\ [][NextStatus]_vars

(***************************************************************************)
(* An envelope on its own: constructed, signed, possibly changed in one    *)
(* signed field, and verified                                              *)
(***************************************************************************)
\* largest number of sign() calls on one envelope
MaxSigns == 2

SignedFields ==
    {"payload", "id", "timestamp", "sender", "settlement", "version", "priority"}

\* the envelopes that differ from the given one in the given field
Changed(envelope, field) ==
    CASE field = "payload" ->
            {[envelope EXCEPT !.payload = p] : p \in Payloads \ {envelope.payload}}
      [] field = "id" ->
            {[envelope EXCEPT !.id = u] : u \in Uuids \ {envelope.id}}
      [] field = "timestamp" ->
            {[envelope EXCEPT !.timestamp = @ + 1]}
      [] field = "sender" ->
            {[envelope EXCEPT !.sender.public_key = GetPublicKeyPem(i)] :
                i \in {i \in Identities :
                          GetPublicKeyPem(i) # envelope.sender.public_key}}
            \cup {[envelope EXCEPT !.sender.public_key = NotBase64Pem],
                  [envelope EXCEPT !.sender.agent_id = "agent-other"]}
      [] field = "settlement" ->
            {[envelope EXCEPT !.settlement.amount = 1]}
      [] field = "version" ->
            {[envelope EXCEPT !.natp_version = "0.2.0"]}
      [] field = "priority" ->
            IF "priority" \in DOMAIN envelope
            THEN {[envelope EXCEPT !.priority = q] :
                     q \in Priorities \ {envelope.priority}}
            ELSE {[f \in DOMAIN envelope \cup {"priority"} |->
                     IF f = "priority" THEN "high" ELSE envelope[f]]}

InitEnvelope ==
    /\ \E kind \in Kinds, identity \in Identities, payload \in Payloads,
          priority \in Priorities, id \in Uuids, timestamp \in Timestamps :
          LET sender == [public_key |-> GetPublicKeyPem(identity),
                         agent_id |-> GetAgentId(identity)]
          IN  probe = [kind |-> kind, signer |-> identity,
                       envelope |->
                          IF kind = "amorce"
                          THEN AmorceEnvelope(sender, payload, priority, id, timestamp)
                          ELSE NexusEnvelope(sender, payload, priority, id, timestamp),
                       step |-> "new", changed |-> "none", verified |-> "none",
                       checked |-> FALSE, asked |-> {}, signatures |-> <<>>]
    /\ Idle

ProbeOnly ==
    UNCHANGED <<client, remote, pc, op, args, prep, sent, hist, result, signs,
                uuids, delays, ctor>>

\* await envelope.sign(identity), on a new envelope or once more on a signed
\* one; probe.signatures keeps what each call stored
EnvelopeSign ==
    /\ probe.step \in {"new", "signed"} /\ probe.verified = "none"
    /\ Len(probe.signatures) < MaxSigns
    /\ LET signed == SignEnvelope(probe.envelope, probe.signer)
       IN  probe' = [probe EXCEPT !.envelope = signed, !.step = "signed",
                                  !.signatures = Append(@, signed.signature)]
    /\ ProbeOnly

\* one signed field of the signed envelope is assigned another value
EnvelopeChange ==
    /\ probe.step = "signed" /\ probe.verified = "none"
    /\ \E field \in SignedFields :
          \E e \in Changed(probe.envelope, field) :
              probe' = [probe EXCEPT !.envelope = e, !.step = "changed",
                                     !.changed = field]
    /\ ProbeOnly

\* await envelope.verify() on an AmorceEnvelope
AmorceEnvelopeVerifyCall ==
    /\ probe.kind = "amorce" /\ probe.verified = "none"
    /\ LET verdict == AmorceEnvelopeVerify(probe.envelope)
       IN  probe' = [probe EXCEPT !.verified = verdict.result,
                                  !.checked = verdict.checked]
    /\ ProbeOnly

\* await envelope.verify() on a NexusEnvelope
NexusEnvelopeVerifyCall ==
    /\ probe.kind = "nexus" /\ probe.verified = "none"
    /\ LET verdict == NexusEnvelopeVerify(probe.envelope)
       IN  probe' = [probe EXCEPT !.verified = verdict.result,
                                  !.checked = verdict.checked]
    /\ ProbeOnly

NextEnvelope ==
    \/ EnvelopeSign
    \/ EnvelopeChange
    \/ AmorceEnvelopeVerifyCall
    \/ NexusEnvelopeVerifyCall

SpecEnvelope == InitEnvelope /\ [][NextEnvelope]_vars

\* IdentityManager.verify on its own: the messages, signature strings and
\* public keys it is called with
VerifyMessages ==
    {GetCanonicalJsonBytes(p) : p \in Payloads} \cup {[utf8 |-> [text |-> Leaf("hello")]]}

VerifySignatures ==
    {Sign(i, m) : i \in Identities, m \in VerifyMessages}
        \cup {NotBase64Signature, ShortSignature}

VerifyPublicKeys == {i.publicKey : i \in Identities} \cup {ShortPublicKey}

InitVerify ==
    /\ \E m \in VerifyMessages, sig \in VerifySignatures, k \in VerifyPublicKeys :
          probe = [message |-> m, signatureBase64 |-> sig, publicKey |-> k,
                   settled |-> "none", asked |-> {}]
    /\ Idle

\* await IdentityManager.verify(message, signatureBase64, publicKey)
IdentityManagerVerifyCall ==
    /\ probe.settled = "none"
    /\ probe' = [probe EXCEPT !.settled =
                    IdentityManagerVerify(probe.message, probe.signatureBase64,
                                          probe.publicKey)]
    /\ ProbeOnly

NextVerify == IdentityManagerVerifyCall

SpecVerify == InitVerify /\ [][NextVerify]_vars

\* the AmorceEnvelope constructor on its own: the third arguments it is
\* called with, none included
PriorityArguments == Priorities \cup {Absent, "urgent", "low", "NORMAL"}

InitNewEnvelope ==
    /\ \E identity \in Identities, payload \in Payloads,
          priority \in PriorityArguments, id \in Uuids, timestamp \in Timestamps :
          probe = [sender |-> [public_key |-> GetPublicKeyPem(identity),
                               agent_id |-> GetAgentId(identity)],
                   payload |-> payload, priority |-> priority, id |-> id,
                   timestamp |-> timestamp, made |-> [thrown |-> "pending"],
                   asked |-> {}]
    /\ Idle

\* new AmorceEnvelope(sender, payload, priority)
NewAmorceEnvelopeCall ==
    /\ probe.made.thrown = "pending"
    /\ probe' = [probe EXCEPT !.made =
                    NewAmorceEnvelope(probe.sender, probe.payload, probe.priority,
                                      probe.id, probe.timestamp)]
    /\ ProbeOnly

NextNewEnvelope == NewAmorceEnvelopeCall

SpecNewEnvelope == InitNewEnvelope /\ [][NextNewEnvelope]_vars

\* the PEM functions on their own: public keys of 32 bytes, one byte apart
\* from the others at every place
ByteSamples == {0, 62, 251, 255}

PublicKeys32 ==
    {[i \in 1..KeyLength |-> IF i = place THEN one ELSE rest] :
        place \in 1..KeyLength, one \in ByteSamples, rest \in ByteSamples}

InitPem ==
    /\ \E k \in PublicKeys32 :
          probe = [publicKey |-> k, step |-> "key", pem |-> <<>>,
                   parsed |-> [threw |-> FALSE, bytes |-> <<>>], asked |-> {}]
    /\ Idle

\* identity.getPublicKeyPem()
GetPublicKeyPemCall ==
    /\ probe.step = "key"
    /\ probe' = [probe EXCEPT !.pem = PublicKeyPem(probe.publicKey),
                               !.step = "pem"]
    /\ ProbeOnly

\* pemToBytes(pem) of the exported text
PemToBytesCall ==
    /\ probe.step = "pem"
    /\ probe' = [probe EXCEPT !.parsed = PemKeyBytes(probe.pem),
                               !.step = "parsed"]
    /\ ProbeOnly

NextPem ==
    \/ GetPublicKeyPemCall
    \/ PemToBytesCall

SpecPem == InitPem /\ [][NextPem]_vars

\* getCanonicalJsonBytes on its own: records with an object and an array
\* among their values, their properties inserted in every order
Orders(items) ==
    {q \in [1..Len(items) -> 1..Len(items)] :
        \A i, j \in 1..Len(items) : q[i] = q[j] => i = j}

Reordered(items) ==
    {[i \in 1..Len(items) |-> items[q[i]]] : q \in Orders(items)}

InnerRecords ==
    {Obj(kv) : kv \in Reordered(<<Pair("data", Leaf("d1")), Pair("item", Leaf("i1"))>>)}

Arrays == {Arr(items) : items \in Reordered(<<Leaf("a"), Leaf("b")>>)}

Records ==
    UNION {{Obj(kv) : kv \in Reordered(<<Pair("payload", inner), Pair("memo", array),
                                         Pair("note", Leaf(note))>>)} :
              inner \in InnerRecords, array \in Arrays, note \in {"n1", "n2"}}

InitCanonical ==
    /\ \E a \in Records, b \in Records :
          probe = [first |-> a, second |-> b, step |-> "built",
                   bytes |-> <<>>, asked |-> {}]
    /\ Idle

\* getCanonicalJsonBytes(first), getCanonicalJsonBytes(second)
GetCanonicalJsonBytesCall ==
    /\ probe.step = "built"
    /\ probe' = [probe EXCEPT !.bytes = <<GetCanonicalJsonBytes(probe.first),
                                          GetCanonicalJsonBytes(probe.second)>>,
                               !.step = "encoded"]
    /\ ProbeOnly

NextCanonical == GetCanonicalJsonBytesCall

SpecCanonical == InitCanonical /\ [][NextCanonical]_vars

(***************************************************************************)
(* The manifest handlers of wellKnown.ts.  A handler keeps cachedManifest  *)
(* and cachedAt; a request runs from its arrival to the fetch it awaits in *)
(* one step, and from the settling of that fetch to its answer in another. *)
(***************************************************************************)
\* the requests that reach one handler, numbered in the order of arrival
NumRequests == 2

\* the last reading of the clock, in seconds
MaxClock == 3

Requests == 1..NumRequests

JsNull == "null"

Manifests == {"manifest-1", "manifest-2"}

InvalidJson == "<not json>"

WellKnownPath == "/.well-known/agent.json"

Paths == {WellKnownPath, "/api/other"}

DefaultCacheTtl == 300

\* options.cacheTtl, given or not
CacheTtlOptions == {[given |-> FALSE, value |-> 0], [given |-> TRUE, value |-> 2]}

\* const { cacheTtl = 300 } = options
CacheTtl(option) == IF option.given THEN option.value ELSE DefaultCacheTtl

\* what fetch(url) settles with: a network error, or a response with a
\* status and a body that is the JSON text of a manifest, of null, or no JSON
DirectoryOutcomes ==
    {[net |-> TRUE, status |-> 0, json |-> JsNull]}
        \cup {[net |-> FALSE, status |-> st, json |-> JsNull] : st \in {404, 500}}
        \cup {[net |-> FALSE, status |-> 200, json |-> j] :
                  j \in Manifests \cup {JsNull, InvalidJson}}

\* fetchManifest: throws on a network error, on a response that is not ok
\* and on a body that response.json() cannot parse
FetchManifest(outcome) ==
    IF outcome.net \/ outcome.status < 200 \/ outcome.status > 299
          \/ outcome.json = InvalidJson
    THEN [threw |-> TRUE, manifest |-> JsNull]
    ELSE [threw |-> FALSE, manifest |-> outcome.json]

\* the text of res.json(value) and of JSON.stringify(value)
JsonText(value) == [json |-> value]

ManifestErrorBody == JsonText("{error: 'Failed to fetch agent manifest'}")

NoAnswer == [status |-> 0, body |-> JsonText("<nothing>"), maxAge |-> 0]

ManifestAnswer(manifest, cacheTtl) ==
    [status |-> 200, body |-> JsonText(manifest), maxAge |-> cacheTtl]

ErrorAnswer == [status |-> 500, body |-> ManifestErrorBody, maxAge |-> 0]

\* variant: the cache is taken as expired one second early
CacheFreshOffByOne(cachedManifest, cachedAt, now, cacheTtl) ==
    cachedManifest # JsNull /\ (now - cachedAt) < cacheTtl - 1

\* cachedManifest && (now - cachedAt) < cacheTtl
CacheFresh(cachedManifest, cachedAt, now, cacheTtl) ==
    cachedManifest # JsNull /\ (now - cachedAt) < cacheTtl

\* variant: the path of the request is not looked at
ServeWellKnownBeginAnyPath(path, cachedManifest, cachedAt, now, cacheTtl) ==
    IF CacheFresh(cachedManifest, cachedAt, now, cacheTtl) THEN "cached"
    ELSE "fetch"

\* the middleware of serveWellKnown up to its await: next() for another
\* path, the cached manifest while it is fresh, a fetch otherwise
ServeWellKnownBegin(path, cachedManifest, cachedAt, now, cacheTtl) ==
    IF path # WellKnownPath THEN "next"
    ELSE IF CacheFresh(cachedManifest, cachedAt, now, cacheTtl) THEN "cached"
    ELSE "fetch"

\* the handler of createWellKnownHandler up to its await
CreateWellKnownHandlerBegin(cachedManifest, cachedAt, now, cacheTtl) ==
    IF CacheFresh(cachedManifest, cachedAt, now, cacheTtl) THEN "cached"
    ELSE "fetch"

\* variant: a manifest is stored only by a request newer than the one that
\* stored the cached manifest
OnFetchedKeepsNewer(cachedManifest, cachedAt, now, manifest, cacheTtl) ==
    IF cachedManifest # JsNull /\ now <= cachedAt
    THEN [cachedManifest |-> cachedManifest, cachedAt |-> cachedAt,
          answer |-> ManifestAnswer(manifest, cacheTtl)]
    ELSE [cachedManifest |-> manifest, cachedAt |-> now,
          answer |-> ManifestAnswer(manifest, cacheTtl)]

\* cachedManifest = await fetchManifest(...); cachedAt = now; the answer is
\* made from cachedManifest as it is then
OnFetched(cachedManifest, cachedAt, now, manifest, cacheTtl) ==
    LET stored == manifest
    IN  [cachedManifest |-> stored, cachedAt |-> now,
         answer |-> ManifestAnswer(stored, cacheTtl)]

\* variant: a failed fetch empties the cache
OnFetchFailedClearsCache(cachedManifest, cachedAt) ==
    [cachedManifest |-> JsNull, cachedAt |-> 0, answer |-> ErrorAnswer]

\* the catch block: status 500 and the error body
OnFetchFailed(cachedManifest, cachedAt) ==
    [cachedManifest |-> cachedManifest, cachedAt |-> cachedAt,
     answer |-> ErrorAnswer]

NewRequest ==
    [pc |-> "new", path |-> WellKnownPath, now |-> 0,
     saw |-> [cachedManifest |-> JsNull, cachedAt |-> 0],
     did |-> "none", nextCalls |-> 0, answer |-> NoAnswer,
     threw |-> FALSE, manifest |-> JsNull]

\* serveWellKnown(options) or createWellKnownHandler(options): an empty
\* cache, cacheTtl 300 unless given
InitManifest ==
    /\ \E handler \in {"serveWellKnown", "createWellKnownHandler"},
          option \in CacheTtlOptions :
          probe = [handler |-> handler,
                   cacheTtl |-> CacheTtl(option),
                   cachedManifest |-> JsNull, cachedAt |-> 0,
                   clock |-> 0, fetches |-> 0,
                   reqs |-> [r \in Requests |-> NewRequest],
                   log |-> <<>>, asked |-> {}]
    /\ Idle

\* a second passes
Tick ==
    /\ "clock" \in DOMAIN probe
    /\ probe.clock < MaxClock
    /\ probe' = [probe EXCEPT !.clock = @ + 1]
    /\ ProbeOnly

\* a request reaches the handler and runs up to its await or to its end
Arrive(r, path) ==
    /\ probe.reqs[r].pc = "new"
    /\ \A q \in Requests : q < r => probe.reqs[q].pc # "new"
    /\ LET now == probe.clock
           did == IF probe.handler = "serveWellKnown"
                  THEN ServeWellKnownBegin(path, probe.cachedManifest,
                                           probe.cachedAt, now, probe.cacheTtl)
                  ELSE CreateWellKnownHandlerBegin(probe.cachedManifest,
                                           probe.cachedAt, now, probe.cacheTtl)
       IN  probe' = [probe EXCEPT
               !.reqs[r] = [@ EXCEPT
                   !.pc = IF did = "fetch" THEN "fetching" ELSE "done",
                   !.path = path,
                   !.now = now,
                   !.saw = [cachedManifest |-> probe.cachedManifest,
                            cachedAt |-> probe.cachedAt],
                   !.did = did,
                   !.nextCalls = IF did = "next" THEN 1 ELSE 0,
                   !.answer = IF did = "cached"
                              THEN ManifestAnswer(probe.cachedManifest, probe.cacheTtl)
                              ELSE NoAnswer],
               !.fetches = IF did = "fetch" THEN @ + 1 ELSE @,
               !.log = Append(@, [ev |-> "arrive", r |-> r])]
    /\ ProbeOnly

\* variant: cachedAt is read from the clock when the fetch has settled
SettledStampsCompletion(r, outcome) ==
    /\ probe.reqs[r].pc = "fetching"
    /\ LET fetched == FetchManifest(outcome)
           after == IF fetched.threw
                    THEN OnFetchFailed(probe.cachedManifest, probe.cachedAt)
                    ELSE OnFetched(probe.cachedManifest, probe.cachedAt,
                                   probe.clock, fetched.manifest,
                                   probe.cacheTtl)
       IN  probe' = [probe EXCEPT
               !.cachedManifest = after.cachedManifest,
               !.cachedAt = after.cachedAt,
               !.reqs[r] = [@ EXCEPT !.pc = "done",
                                     !.answer = after.answer,
                                     !.threw = fetched.threw,
                                     !.manifest = fetched.manifest],
               !.log = Append(@, [ev |-> IF fetched.threw THEN "failed" ELSE "stored",
                                  r |-> r])]
    /\ ProbeOnly

\* the fetch of a request settles and the request runs to its end
Settled(r, outcome) ==
    /\ probe.reqs[r].pc = "fetching"
    /\ LET fetched == FetchManifest(outcome)
           after == IF fetched.threw
                    THEN OnFetchFailed(probe.cachedManifest, probe.cachedAt)
                    ELSE OnFetched(probe.cachedManifest, probe.cachedAt,
                                   probe.reqs[r].now, fetched.manifest,
                                   probe.cacheTtl)
       IN  probe' = [probe EXCEPT
               !.cachedManifest = after.cachedManifest,
               !.cachedAt = after.cachedAt,
               !.reqs[r] = [@ EXCEPT !.pc = "done",
                                     !.answer = after.answer,
                                     !.threw = fetched.threw,
                                     !.manifest = fetched.manifest],
               !.log = Append(@, [ev |-> IF fetched.threw THEN "failed" ELSE "stored",
                                  r |-> r])]
    /\ ProbeOnly

RequestArrives == \E r \in Requests, path \in Paths : Arrive(r, path)

FetchSettles == \E r \in Requests, outcome \in DirectoryOutcomes : Settled(r, outcome)

NextManifest ==
    \/ Tick
    \/ RequestArrives
    \/ FetchSettles

SpecManifest == InitManifest /\ [][NextManifest]_vars

TypeOK ==
    /\ pc \in [Calls -> {"unused", "start", "ready", "wait", "backoff", "done"}]
    /\ \A c \in Calls : Len(sent[c]) <= Retries + 1

(***************************************************************************)
(* Properties                                                              *)
(***************************************************************************)
AmorceTransactCalls == {c \in Calls : pc[c] # "unused" /\ Is(c, "amorce", "transact")}

AmorceDiscoverCalls == {c \in Calls : pc[c] # "unused" /\ Is(c, "amorce", "discover")}

NexusTransactCalls == {c \in Calls : pc[c] # "unused" /\ Is(c, "nexus", "transact")}

\* the last outcome a call has received
Last(c) == hist[c][Len(hist[c])]

\* a 4xx status other than 429
Fatal4xx(out) == ~out.net /\ out.status >= 400 /\ out.status < 500 /\ out.status # 429

\* attempt i of call c was followed, or is about to be followed, by another
Retried(c, i) == i < Len(hist[c]) \/ (i = Len(hist[c]) /\ pc[c] = "backoff")

\* the first k outcomes of call c are 503 responses
First503(c, k) ==
    /\ Len(hist[c]) >= k
    /\ \A i \in 1..k : ~hist[c][i].net /\ hist[c][i].status = 503

\* C1: in AmorceClient.transact an attempt answered with a 4xx status other
\* than 429 is the only attempt of the call: the call ends there with an
\* AmorceAPIError and no further POST is sent.
C1_Fatal4xxSingleAttempt ==
    \A c \in AmorceTransactCalls :
        \A i \in 1..Len(hist[c]) :
            Fatal4xx(hist[c][i]) =>
                /\ i = 1
                /\ Len(sent[c]) = 1
                /\ pc[c] = "done"
                /\ result[c].kind = "AmorceAPIError"

\* C2: when every attempt of AmorceClient.transact is answered with 503,
\* the call makes exactly 4 attempts and then ends with a thrown
\* AmorceNetworkError or AmorceAPIError; it never makes a 5th attempt and
\* never returns a response object.
C2_Always503FourAttempts ==
    \A c \in AmorceTransactCalls :
        (Len(hist[c]) >= 1 /\ First503(c, Len(hist[c]))) =>
            /\ Len(sent[c]) <= 4
            /\ (pc[c] = "done") = (Len(hist[c]) = 4)
            /\ pc[c] = "done" =>
                  /\ Len(sent[c]) = 4
                  /\ result[c].kind \in {"AmorceNetworkError", "AmorceAPIError"}
            /\ result[c].kind # "AmorceResponse"

C2_Witness ==
    \E c \in AmorceTransactCalls :
        /\ First503(c, 4)
        /\ pc[c] = "done"
        /\ result[c].kind = "AmorceNetworkError"

\* C3: all attempts of one AmorceClient.transact call carry the same
\* X-Amorce-Idempotency value: the key of the caller when one is given,
\* otherwise one key generated once, before the first attempt.
C3_IdempotencyKeyStable ==
    \A c \in AmorceTransactCalls :
        /\ \A i, j \in 1..Len(sent[c]) :
              sent[c][i].headers.idempotency = sent[c][j].headers.idempotency
        /\ \A i \in 1..Len(sent[c]) :
              IF args[c].idempotencyKey \notin {Absent, ""}
              THEN /\ sent[c][i].headers.idempotency = args[c].idempotencyKey
                   /\ uuids[c] = 0
              ELSE /\ sent[c][i].headers.idempotency \in Uuids
                   /\ uuids[c] = 1

C3_Witness ==
    \E c \in AmorceTransactCalls :
        /\ args[c].idempotencyKey = Absent
        /\ Len(sent[c]) = 4
        /\ sent[c][4].headers.idempotency = sent[c][1].headers.idempotency

\* C4: when the first k attempts of a transact call (0 <= k <= 3) are
\* answered with 503 and the next one with 200, the call makes exactly k+1
\* attempts and returns the successful result of the last one (a JSON body
\* being what a result is mapped from); up to three 503 answers in a row do
\* not end the call.
C4_RecoversAfter503 ==
    \A c \in AmorceTransactCalls \cup NexusTransactCalls :
        /\ (Len(hist[c]) \in 1..3 /\ First503(c, Len(hist[c]))) =>
              pc[c] \in {"backoff", "wait"}
        /\ \A k \in 0..3 :
            ( /\ First503(c, k)
              /\ Len(hist[c]) >= k + 1
              /\ ~hist[c][k + 1].net
              /\ hist[c][k + 1].status = 200 ) =>
                /\ Len(hist[c]) = k + 1
                /\ Len(sent[c]) = k + 1
                /\ pc[c] = "done"
                /\ hist[c][k + 1].body.tag = "json" =>
                      /\ result[c].kind =
                            (IF client.kind = "amorce" THEN "AmorceResponse" ELSE "json")
                      /\ result[c].status_code = 200
                      /\ result[c].body = hist[c][k + 1].body

C4_Witness ==
    \E c \in NexusTransactCalls :
        /\ First503(c, 2)
        /\ Len(hist[c]) = 3
        /\ hist[c][3].status = 200
        /\ Len(sent[c]) = 3
        /\ result[c].kind = "json"
        /\ result[c].body.status = "success"

\* C5: the JSON body of every attempt of NexusClient.transact has a
\* top-level priority field equal to the priority argument of the caller,
\* and a defined signature field.
C5_EnvelopeCarriesPriority ==
    \A c \in NexusTransactCalls :
        \A i \in 1..Len(sent[c]) :
            /\ "priority" \in DOMAIN sent[c][i].body
            /\ sent[c][i].body.priority = args[c].priority
            /\ "signature" \in DOMAIN sent[c][i].body

\* the identifier the server put in a success body, under either name
ServerIdentifier(b) ==
    IF b.transaction_id # Absent THEN b.transaction_id ELSE b.tx_id

\* a transact call on AmorceClient that has returned a response object
Succeeded(c) ==
    /\ c \in AmorceTransactCalls
    /\ pc[c] = "done"
    /\ result[c].kind = "AmorceResponse"

\* C6 as stated: the returned transaction id is the identifier the server
\* returned in the success body ('ok-1' for {status:'success', tx_id:'ok-1'}),
\* and the idempotency key only when the server returned none.
C6_ServerIdentifierReturned ==
    \A c \in Calls :
        Succeeded(c) =>
            IF ServerIdentifier(Last(c).body) # Absent
            THEN result[c].transaction_id = ServerIdentifier(Last(c).body)
            ELSE result[c].transaction_id = prep[c].key

\* C6 amended: the returned transaction id is the transaction_id field of
\* the success body when that field is present and not empty; otherwise,
\* also when the body names its identifier tx_id, it is the idempotency key
\* of the call.
C6_TransactionIdFieldOrKey ==
    \A c \in Calls :
        Succeeded(c) =>
            IF Last(c).body.transaction_id \notin {Absent, ""}
            THEN result[c].transaction_id = Last(c).body.transaction_id
            ELSE /\ result[c].transaction_id = prep[c].key
                 /\ result[c].transaction_id = sent[c][1].headers.idempotency

C6_Witness ==
    \E c \in Calls :
        /\ Succeeded(c)
        /\ Last(c).body.tx_id = "ok-1"
        /\ result[c].transaction_id = prep[c].key

\* C7: AmorceClient.transact runs another attempt after an attempt if and
\* only if that attempt ended in a network failure or in a status among
\* 429, 500, 502, 503, 504 (and the retry budget is not used up).
C7_RetriesExactlyListedStatuses ==
    \A c \in AmorceTransactCalls :
        \A i \in 1..Len(hist[c]) :
            Retried(c, i) =
                ( /\ i <= 3
                  /\ \/ hist[c][i].net
                     \/ hist[c][i].status \in {429, 500, 502, 503, 504} )

\* C8: AmorceClient.discover runs another attempt only after a network
\* failure or a status among 429, 503, 504; any other status than 200 ends
\* the call after that attempt with an AmorceAPIError carrying the status
\* and the body.
C8_DiscoverFatalImmediately ==
    \A c \in AmorceDiscoverCalls :
        \A i \in 1..Len(hist[c]) :
            /\ Retried(c, i) =>
                  (hist[c][i].net \/ hist[c][i].status \in {429, 503, 504})
            /\ ( /\ ~hist[c][i].net
                 /\ hist[c][i].status \notin {200, 429, 503, 504} ) =>
                  /\ i = Len(sent[c])
                  /\ pc[c] = "done"
                  /\ result[c] = AmorceAPIError(hist[c][i].status, hist[c][i].body)

C10_MissingServiceIdFailsFirst ==
    \A c \in AmorceTransactCalls :
        args[c].service_id \in {Absent, ""} =>
            /\ pc[c] \in {"start", "done"}
            /\ pc[c] = "done" => result[c] = AmorceConfigError
            /\ signs[c] = 0
            /\ uuids[c] = 0
            /\ sent[c] = <<>>
            /\ prep[c] = NoPrep

C10_Witness ==
    \E c \in AmorceTransactCalls :
        /\ args[c].service_id = ""
        /\ pc[c] = "done"
        /\ result[c] = AmorceConfigError
        /\ signs[c] = 0 /\ uuids[c] = 0 /\ sent[c] = <<>>

\* an outcome the retry policy of the write path lists as retryable
RetryableOutcome(out) == out.net \/ out.status \in {429, 500, 502, 503, 504}

\* the attempts of call c never overlap: at most one request is without
\* its outcome, and only while the call waits for it
OneInFlight(c) ==
    /\ Len(sent[c]) - Len(hist[c]) \in {0, 1}
    /\ (Len(sent[c]) = Len(hist[c]) + 1) = (pc[c] = "wait")

\* C11: within one AmorceClient.transact call at most one attempt is in
\* flight at any time, and attempt n+1 is started only after attempt n has
\* ended in a retryable outcome (a network failure or one of 429, 500, 502,
\* 503, 504) and the backoff timer set after it has fired.
C11_AttemptsStrictlySequential ==
    \A c \in AmorceTransactCalls :
        /\ OneInFlight(c)
        /\ \A n \in 1..(Len(sent[c]) - 1) :
              /\ n <= Len(hist[c])
              /\ Len(delays[c]) >= n
              /\ RetryableOutcome(hist[c][n])

\* C12: when two transact calls run concurrently on one AmorceClient, every
\* attempt of a call carries the body, the signature and the idempotency
\* key of that call, never those of the other call where they differ, and
\* what a call returns or throws is determined by the request it built and
\* the outcomes of its own attempts.
C12_ConcurrentCallsIndependent ==
    \A c \in AmorceTransactCalls :
        LET body == AmorceRequestBody(client, args[c])
            signature == Sign(client.identity, GetCanonicalJsonBytes(body))
        IN  /\ \A i \in 1..Len(sent[c]) :
                  /\ sent[c][i].body = JsonStringify(body)
                  /\ sent[c][i].headers.signature = signature
                  /\ sent[c][i].headers.idempotency = prep[c].key
                  /\ Truthy(args[c].idempotencyKey) =>
                        sent[c][i].headers.idempotency = args[c].idempotencyKey
                  /\ \A d \in AmorceTransactCalls \ {c} :
                        /\ args[d].priority # args[c].priority =>
                              /\ sent[c][i].body #
                                    JsonStringify(AmorceRequestBody(client, args[d]))
                              /\ sent[c][i].headers.signature #
                                    Sign(client.identity, GetCanonicalJsonBytes(
                                        AmorceRequestBody(client, args[d])))
                        /\ prep[d].key # prep[c].key =>
                              sent[c][i].headers.idempotency # prep[d].key
            /\ OneInFlight(c)
            /\ (pc[c] = "done" /\ Len(hist[c]) >= 1) =>
                  result[c] = AmorceTransactSettle(prep[c],
                                                   AmorceTransactCallback(Last(c)))

\* both calls have an attempt in flight at once, after different numbers
\* of attempts
C12_Witness ==
    /\ AmorceTransactCalls = Calls
    /\ pc["c1"] = "wait" /\ pc["c2"] = "wait"
    /\ Len(sent["c1"]) = 2 /\ Len(sent["c2"]) = 3
    /\ sent["c1"][2].headers.signature # sent["c2"][3].headers.signature
    /\ sent["c1"][2].headers.idempotency # sent["c2"][3].headers.idempotency

\* C13: whatever the remote service answers, a transact or discover call
\* makes at most 4 attempts and, every attempt completing, eventually ends
\* with a returned or thrown result; a call whose fourth attempt has
\* completed is ended, not pending.
C13_BoundedAttemptsAndTermination ==
    /\ [](\A c \in Calls :
            /\ Len(sent[c]) <= 4
            /\ Len(hist[c]) = 4 => pc[c] = "done"
            /\ pc[c] = "done" => result[c] # Pending)
    /\ <>(\A c \in Calls : pc[c] \in {"unused", "done"})

\* a discover call that has used up its budget on network failures
C13_Witness ==
    \E c \in AmorceDiscoverCalls :
        /\ Len(sent[c]) = 4 /\ Len(hist[c]) = 4
        /\ \A i \in 1..4 : hist[c][i].net
        /\ pc[c] = "done"
        /\ result[c] = AmorceNetworkError

\* C14: the delay before jitter of the timer set before retry n of a
\* transact call (n = 1, 2, 3) is min(10000, 1000 * 2^(n-1)), that is 1000,
\* 2000, 4000 ms: the delays of a call never decrease and none exceeds
\* 10000 ms.
C14_BackoffDelays ==
    \A c \in AmorceTransactCalls \cup NexusTransactCalls :
        /\ Len(delays[c]) <= 3
        /\ \A n \in 1..Len(delays[c]) :
              /\ delays[c][n] = Min(10000, 1000 * 2^(n - 1))
              /\ delays[c][n] = <<1000, 2000, 4000>>[n]
              /\ c \in AmorceTransactCalls =>
                    \A random \in Randoms :
                        PRetryTimeout(n, random) \in delays[c][n]..10000
              /\ delays[c][n] <= 10000
              /\ n > 1 => delays[c][n - 1] <= delays[c][n]

\* a call on AmorceClient that has gone through all three backoff delays
C14_Witness ==
    \E c \in AmorceTransactCalls :
        /\ Len(sent[c]) = 4
        /\ delays[c] = <<1000, 2000, 4000>>

\* the names of the members of a JSON object
Members(v) == {v.kv[j].k : j \in 1..Len(v.kv)}

\* C15: every request AmorceClient.transact puts on the wire, on every
\* attempt, has an X-Agent-Signature header that is the signature of the
\* client's identity over the canonical bytes of the object with exactly
\* the members service_id, consumer_agent_id, payload and priority that is
\* sent as the body: a receiver that parses the body, canonicalizes it again
\* and verifies the header against the sender's public key succeeds.
C15_SignatureCoversSentBody ==
    \A c \in AmorceTransactCalls :
        \A i \in 1..Len(sent[c]) :
            LET req == sent[c][i]
                received == JsonParse(req.body)
            IN  /\ "signature" \in DOMAIN req.headers
                /\ req.headers.signature.by = client.identity.privateKey
                /\ Members(received) =
                      {"service_id", "consumer_agent_id", "payload", "priority"}
                /\ req.headers.signature.over = GetCanonicalJsonBytes(received)
                /\ Verify(GetCanonicalJsonBytes(received), req.headers.signature,
                          client.identity.publicKey)

\* a fourth attempt whose body text is not in canonical order and whose
\* payload had an undefined property
C15_Witness ==
    \E c \in AmorceTransactCalls :
        /\ Len(sent[c]) = 4
        /\ args[c].payload = Payload2
        /\ sent[c][4].body # StableStringify(prep[c].body)
        /\ JsonParse(sent[c][4].body) # prep[c].body
        /\ Verify(GetCanonicalJsonBytes(JsonParse(sent[c][4].body)),
                  sent[c][4].headers.signature, "pk-A")

\* C16: the AmorceClient constructor throws AmorceConfigError exactly when
\* the directory URL or the orchestrator URL starts with neither 'http://'
\* nor 'https://'; then no client exists and nothing has been sent.  With
\* two valid URLs a client is constructed.
C16_InvalidUrlThrowsConfigError ==
    (ctor.kind = "amorce" /\ ctor.state # "new") =>
        LET valid(url) == StartsWith(url, HttpPrefix) \/ StartsWith(url, HttpsPrefix)
        IN  IF valid(ctor.directoryUrl) /\ valid(ctor.orchestratorUrl)
            THEN /\ ctor.state = "built"
                 /\ ctor.thrown = Pending
                 /\ client.kind = "amorce"
            ELSE /\ ctor.state = "threw"
                 /\ ctor.thrown = AmorceConfigError
                 /\ client = NoClient
                 /\ \A c \in Calls : sent[c] = <<>> /\ signs[c] = 0

\* a valid directory URL with an orchestrator URL without scheme
C16_Witness ==
    /\ ctor.kind = "amorce" /\ ctor.state = "threw"
    /\ ctor.directoryUrl = HttpsPrefix \o <<"host">>
    /\ ctor.orchestratorUrl = <<"host">>
    /\ ctor.thrown = AmorceConfigError
    /\ client = NoClient

EndsWithSlash(str) == Len(str) > 0 /\ str[Len(str)] = "/"

\* C17: the directory and orchestrator URLs a constructed client stores do
\* not end with '/', however many slashes ended the URLs the caller passed,
\* and so the URL of every request is the stored URL and the path with
\* exactly one '/' between them.
C17_StoredUrlsWithoutTrailingSlash ==
    ctor.state = "built" =>
        /\ ~EndsWithSlash(client.directoryUrl)
        /\ ~EndsWithSlash(client.orchestratorUrl)
        /\ \A c \in Calls :
              \A i \in 1..Len(sent[c]) :
                  LET url == sent[c][i].url
                      path == IF op[c] = "transact" THEN TransactPath ELSE SearchPath
                      base == SubSeq(url, 1, Len(url) - Len(path))
                  IN  /\ url = base \o path
                      /\ ~EndsWithSlash(base)

C19_ReturnsOnlySuccess ==
    \A c \in AmorceTransactCalls :
        (pc[c] = "done" /\ Len(hist[c]) >= 1) =>
            /\ result[c].kind = "AmorceResponse" =>
                  /\ ~Last(c).net
                  /\ Last(c).status >= 200 /\ Last(c).status <= 299
                  /\ isSuccess(result[c])
            /\ (~Last(c).net /\ ~(Last(c).status >= 200 /\ Last(c).status <= 299)) =>
                  result[c].kind \in {"AmorceAPIError", "AmorceNetworkError"}

\* an envelope under examination has been verified
Verified == "envelope" \in DOMAIN probe /\ probe.verified # "none"

\* C20 as stated: a signed envelope whose sender.public_key is the PEM of
\* the signing identity verifies as true, and after a change of any signed
\* field verify returns false.
C20_ChangedEnvelopeVerifiesFalse ==
    Verified =>
        /\ probe.step = "signed" => probe.verified = "true"
        /\ probe.step = "changed" => probe.verified = "false"

\* C20 amended: a signed envelope whose sender.public_key is the PEM of the
\* signing identity verifies as true; after a change of any signed field
\* verify never returns true: NexusEnvelope.verify returns false,
\* AmorceEnvelope.verify returns false or, when the changed
\* sender.public_key cannot be decoded, throws AmorceValidationError.
C20_ChangedEnvelopeNeverVerifies ==
    Verified =>
        /\ probe.step = "signed" => probe.verified = "true"
        /\ probe.step = "changed" =>
              /\ probe.verified # "true"
              /\ probe.kind = "nexus" => probe.verified = "false"
              /\ probe.verified = "AmorceValidationError" <=>
                    /\ probe.kind = "amorce"
                    /\ probe.envelope.sender.public_key = NotBase64Pem

\* an AmorceEnvelope whose priority was changed after signing
C20_Witness ==
    /\ Verified
    /\ probe.kind = "amorce"
    /\ probe.step = "changed" /\ probe.changed = "priority"
    /\ probe.envelope.signature.by = probe.signer.privateKey
    /\ probe.verified = "false"

\* the envelope under examination as it was constructed
Unsigned(envelope) == [f \in DOMAIN envelope \ {"signature"} |-> envelope[f]]

\* C21: the bytes an envelope signs do not include its signature:
\* getCanonicalJson() of a signed envelope returns the bytes it returned
\* before sign(), a further sign() with the same identity stores the same
\* signature, and the bytes verify() recomputes are the bytes that were
\* signed.
C21_SignatureExcludedFromSignedBytes ==
    ("envelope" \in DOMAIN probe /\ probe.step = "signed") =>
        /\ "signature" \notin DOMAIN GetCanonicalJson(probe.envelope).canonical
        /\ GetCanonicalJson(probe.envelope) =
              GetCanonicalJson(Unsigned(probe.envelope))
        /\ \A i \in 1..Len(probe.signatures) :
              /\ probe.signatures[i] = probe.signatures[1]
              /\ probe.signatures[i].over = GetCanonicalJson(probe.envelope)
        /\ probe.envelope.signature = probe.signatures[1]
        /\ probe.verified # "none" => probe.verified = "true"

\* an envelope signed twice and then verified
C21_Witness ==
    /\ "envelope" \in DOMAIN probe
    /\ probe.step = "signed"
    /\ Len(probe.signatures) = 2
    /\ probe.signatures[2] = probe.signatures[1]
    /\ probe.verified = "true"

\* C22: verify() on an envelope without signature never returns true:
\* NexusEnvelope.verify returns false, AmorceEnvelope.verify throws
\* AmorceValidationError, and neither gets as far as a signature check.
C22_UnsignedNeverVerifies ==
    (Verified /\ "signature" \notin DOMAIN probe.envelope) =>
        /\ probe.verified # "true"
        /\ probe.kind = "nexus" => probe.verified = "false"
        /\ probe.kind = "amorce" => probe.verified = "AmorceValidationError"
        /\ ~probe.checked

\* a NexusEnvelope that was never signed has been verified
C22_Witness ==
    /\ Verified
    /\ probe.kind = "nexus"
    /\ probe.step = "new" /\ probe.signatures = <<>>
    /\ "signature" \notin DOMAIN probe.envelope
    /\ probe.verified = "false"

\* C23: IdentityManager.verify never throws: a signature string that is not
\* base64, a signature of the wrong length and a signature that does not
\* match give false, and true is given only for a signature made over that
\* message with the private key of that public key.
C23_VerifyNeverThrows ==
    ("signatureBase64" \in DOMAIN probe /\ probe.settled # "none") =>
        /\ probe.settled \in {"true", "false"}
        /\ probe.signatureBase64 \in {NotBase64Signature, ShortSignature}
              => probe.settled = "false"
        /\ probe.settled = "true" <=>
              \E i \in Identities :
                  /\ i.publicKey = probe.publicKey
                  /\ probe.signatureBase64 = Sign(i, probe.message)

\* a signature string that is not base64 has been verified, with false
C23_Witness ==
    /\ "signatureBase64" \in DOMAIN probe
    /\ probe.signatureBase64 = NotBase64Signature
    /\ probe.settled = "false"

\* the constructor call of the probe has ended
Constructed == "made" \in DOMAIN probe /\ probe.made.thrown # "pending"

\* C24: new AmorceEnvelope with a priority outside {normal, high, critical}
\* throws AmorceValidationError and there is no envelope; with a priority of
\* the set, or none (the default 'normal'), the envelope has that priority,
\* a settlement of amount 0 and fee 0, and no signature.
C24_PriorityValidatedAtConstruction ==
    Constructed =>
        IF probe.priority \in Priorities \cup {Absent}
        THEN /\ probe.made.thrown = "none"
             /\ probe.made.envelope.priority =
                    (IF probe.priority = Absent THEN "normal" ELSE probe.priority)
             /\ probe.made.envelope.settlement =
                    [amount |-> 0, currency |-> "USD", facilitation_fee |-> 0]
             /\ "signature" \notin DOMAIN probe.made.envelope
        ELSE /\ probe.made.thrown = "AmorceValidationError"
             /\ "envelope" \notin DOMAIN probe.made

\* a constructor call with the priority 'urgent' has thrown
C24_Witness ==
    /\ Constructed
    /\ probe.priority = "urgent"
    /\ probe.made.thrown = "AmorceValidationError"

\* C25: for every public key k of 32 bytes, the PEM of getPublicKeyPem is the
\* base64 text of the 12 bytes of the SubjectPublicKeyInfo header followed
\* by k, and pemToBytes of that PEM returns exactly k.
C25_PemRoundTrip ==
    /\ ("pem" \in DOMAIN probe /\ probe.step \in {"pem", "parsed"}) =>
          /\ Len(SpkiPrefix) = 12
          /\ Len(probe.publicKey) = 32
          /\ Base64ToBytes(SubSeq(probe.pem, 3, Len(probe.pem) - 3)) =
                [threw |-> FALSE, bytes |-> SpkiPrefix \o probe.publicKey]
    /\ ("pem" \in DOMAIN probe /\ probe.step = "parsed") =>
          /\ ~probe.parsed.threw
          /\ probe.parsed.bytes = probe.publicKey

\* the PEM of a key whose 32 bytes are all 255 but the last has been parsed
C25_Witness ==
    /\ "pem" \in DOMAIN probe
    /\ probe.step = "parsed"
    /\ probe.publicKey = [i \in 1..32 |-> IF i = 32 THEN 62 ELSE 255]
    /\ Len(probe.pem) = 65
    /\ probe.parsed.bytes = probe.publicKey

\* the value of a property
Member(record, key) ==
    record.kv[CHOOSE i \in 1..Len(record.kv) : record.kv[i].k = key].v

KeysOf(record) == {record.kv[i].k : i \in 1..Len(record.kv)}

RECURSIVE SameValue(_, _)
\* the same keys with the same values at every nesting level, whatever the
\* insertion order; arrays the same element by element
SameValue(a, b) ==
    /\ a.s = b.s
    /\ a.s = "<object>" =>
          /\ KeysOf(a) = KeysOf(b)
          /\ \A k \in KeysOf(a) : SameValue(Member(a, k), Member(b, k))
    /\ a.s = "<array>" =>
          /\ Len(a.kv) = Len(b.kv)
          /\ \A i \in 1..Len(a.kv) : SameValue(a.kv[i].v, b.kv[i].v)

RECURSIVE SameButArrayOrder(_, _)
\* the same but for the order of the elements of arrays
SameButArrayOrder(a, b) ==
    /\ a.s = b.s
    /\ a.s = "<object>" =>
          /\ KeysOf(a) = KeysOf(b)
          /\ \A k \in KeysOf(a) : SameButArrayOrder(Member(a, k), Member(b, k))
    /\ a.s = "<array>" =>
          /\ Len(a.kv) = Len(b.kv)
          /\ \E q \in Orders(a.kv) :
                \A i \in 1..Len(a.kv) : SameButArrayOrder(a.kv[i].v, b.kv[q[i]].v)

\* C26: two records with the same keys and values at every nesting level,
\* built with different insertion orders, have identical
\* getCanonicalJsonBytes output; two records that differ only in the order
\* of the elements of an array have different output.
C26_CanonicalIgnoresInsertionOrder ==
    ("first" \in DOMAIN probe /\ probe.step = "encoded") =>
        /\ SameValue(probe.first, probe.second) => probe.bytes[1] = probe.bytes[2]
        /\ (SameButArrayOrder(probe.first, probe.second)
               /\ ~SameValue(probe.first, probe.second))
              => probe.bytes[1] # probe.bytes[2]

\* two records with the same values, their properties inserted in different
\* orders at both levels, have been encoded
C26_Witness ==
    /\ "first" \in DOMAIN probe
    /\ probe.step = "encoded"
    /\ SameValue(probe.first, probe.second)
    /\ probe.first.kv[1].k # probe.second.kv[1].k
    /\ Member(probe.first, "payload") # Member(probe.second, "payload")
    /\ probe.bytes[1] = probe.bytes[2]

\* the place in the log of an event of a request, 0 when there is none
Place(ev, r) ==
    IF \E i \in 1..Len(probe.log) : probe.log[i] = [ev |-> ev, r |-> r]
    THEN CHOOSE i \in 1..Len(probe.log) : probe.log[i] = [ev |-> ev, r |-> r]
    ELSE 0

\* a manifest was stored between two places of the log
StoredBetween(i, j) ==
    \E n \in (i + 1)..(j - 1) : probe.log[n].ev = "stored"

Fetchers == {r \in Requests : probe.reqs[r].did = "fetch"}

\* C27: a manifest handler issues a directory fetch only when no manifest is
\* cached or the cached one is at least cacheTtl seconds old; of two
\* requests in sequence less than cacheTtl apart, the first of which
\* fetched a manifest, only the first causes a fetch and the second is
\* answered with the cached manifest.
C27_FetchOnlyWhenCacheEmptyOrExpired ==
    /\ probe.fetches = Cardinality(Fetchers)
    /\ \A r \in Fetchers :
          \/ probe.reqs[r].saw.cachedManifest = JsNull
          \/ probe.reqs[r].now - probe.reqs[r].saw.cachedAt >= probe.cacheTtl
    /\ \A q, r \in Requests :
          (/\ q \in Fetchers
           /\ probe.reqs[q].manifest \in Manifests
           /\ Place("stored", q) > 0
           /\ Place("arrive", r) > Place("stored", q)
           /\ ~StoredBetween(Place("stored", q), Place("arrive", r))
           /\ probe.reqs[r].path = WellKnownPath
           /\ probe.reqs[r].now - probe.reqs[q].now < probe.cacheTtl)
          => /\ probe.reqs[r].did = "cached"
             /\ Cardinality({q, r} \cap Fetchers) = 1
             /\ probe.reqs[r].answer =
                    ManifestAnswer(probe.reqs[q].manifest, probe.cacheTtl)

\* a new handler with cacheTtl 2 has answered a request at second 0 with the
\* manifest it fetched and the next request, a second later, from the cache
C27_Witness ==
    /\ "clock" \in DOMAIN probe
    /\ probe.cacheTtl = 2
    /\ probe.log = <<[ev |-> "arrive", r |-> 1], [ev |-> "stored", r |-> 1],
                     [ev |-> "arrive", r |-> 2]>>
    /\ probe.reqs[1].now = 0 /\ probe.reqs[2].now = 1
    /\ probe.reqs[1].manifest = "manifest-1"
    /\ probe.reqs[2].did = "cached"
    /\ probe.reqs[2].answer.body = JsonText("manifest-1")
    /\ probe.fetches = 1

\* the fetch of a request has failed
Failed(r) == probe.reqs[r].pc = "done" /\ probe.reqs[r].threw

\* C28: when the directory fetch fails the handler answers with status 500
\* and the error body, never with a manifest; the step leaves cachedManifest
\* and cachedAt as they were, so that the next request, no manifest having
\* been stored meanwhile, fetches again.
C28_FailedFetchAnswers500KeepsCache ==
    /\ [](\A r \in Requests : Failed(r) =>
            /\ probe.reqs[r].answer.status = 500
            /\ probe.reqs[r].answer.body = ManifestErrorBody
            /\ probe.reqs[r].answer.body \notin
                  {JsonText(m) : m \in Manifests \cup {JsNull}}
            /\ \A q \in Requests :
                  (/\ Place("arrive", q) > Place("failed", r)
                   /\ ~StoredBetween(Place("arrive", r), Place("arrive", q))
                   /\ probe.reqs[q].path = WellKnownPath)
                  => q \in Fetchers)
    /\ [][\A r \in Requests :
            (probe.reqs[r].pc = "fetching" /\ probe'.reqs[r].pc = "done"
               /\ probe'.reqs[r].threw)
            => /\ probe'.cachedManifest = probe.cachedManifest
               /\ probe'.cachedAt = probe.cachedAt]_vars

\* with a manifest in the cache, stored at second 0 and expired, the fetch
\* of the next request has failed: status 500, the cache as it was
C28_Witness ==
    /\ "clock" \in DOMAIN probe
    /\ probe.log = <<[ev |-> "arrive", r |-> 1], [ev |-> "stored", r |-> 1],
                     [ev |-> "arrive", r |-> 2], [ev |-> "failed", r |-> 2]>>
    /\ probe.reqs[1].manifest = "manifest-1"
    /\ Failed(2)
    /\ probe.reqs[2].answer.status = 500
    /\ probe.cachedManifest = "manifest-1" /\ probe.cachedAt = 0

\* C29: requests that reach a handler while its cache is empty or expired
\* each perform a fetch of their own and are answered with the manifest they
\* fetched, none waits for another, and when none is left fetching the cache
\* holds the manifest of the fetch that was the last to store one.
C29_ConcurrentRequestsLastWriteWins ==
    /\ probe.fetches = Cardinality(Fetchers)
    /\ \A r \in Requests :
          /\ (/\ probe.reqs[r].pc # "new"
              /\ probe.handler = "serveWellKnown" => probe.reqs[r].path = WellKnownPath
              /\ ~CacheFresh(probe.reqs[r].saw.cachedManifest,
                             probe.reqs[r].saw.cachedAt, probe.reqs[r].now,
                             probe.cacheTtl))
             => r \in Fetchers
          /\ (r \in Fetchers /\ probe.reqs[r].pc = "done" /\ ~probe.reqs[r].threw)
             => probe.reqs[r].answer =
                    ManifestAnswer(probe.reqs[r].manifest, probe.cacheTtl)
          /\ probe.reqs[r].pc = "fetching" =>
                \A outcome \in DirectoryOutcomes : ENABLED Settled(r, outcome)
    /\ (/\ \A r \in Requests : probe.reqs[r].pc # "fetching"
        /\ \E i \in 1..Len(probe.log) : probe.log[i].ev = "stored")
       => LET last == CHOOSE i \in 1..Len(probe.log) :
                         /\ probe.log[i].ev = "stored"
                         /\ \A j \in (i + 1)..Len(probe.log) :
                               probe.log[j].ev # "stored"
          IN  probe.cachedManifest = probe.reqs[probe.log[last].r].manifest

\* two requests were fetching at once; the second stored its manifest
\* before the first, and the cache holds that of the first
C29_Witness ==
    /\ "clock" \in DOMAIN probe
    /\ probe.log = <<[ev |-> "arrive", r |-> 1], [ev |-> "arrive", r |-> 2],
                     [ev |-> "stored", r |-> 2], [ev |-> "stored", r |-> 1]>>
    /\ probe.reqs[1].now < probe.reqs[2].now
    /\ probe.reqs[1].manifest = "manifest-1" /\ probe.reqs[2].manifest = "manifest-2"
    /\ probe.reqs[1].answer.body = JsonText("manifest-1")
    /\ probe.reqs[2].answer.body = JsonText("manifest-2")
    /\ probe.cachedManifest = "manifest-1"

\* C30: the middleware of serveWellKnown, for a request whose path is not
\* '/.well-known/agent.json', calls next() once and does nothing else: no
\* fetch, nothing written to the response, the cache as it was.
C30_OtherPathsOnlyCallNext ==
    /\ [](\A r \in Requests :
            (/\ probe.handler = "serveWellKnown"
             /\ probe.reqs[r].pc # "new"
             /\ probe.reqs[r].path # WellKnownPath)
            => /\ probe.reqs[r].pc = "done"
               /\ probe.reqs[r].nextCalls = 1
               /\ probe.reqs[r].answer = NoAnswer
               /\ r \notin Fetchers)
    /\ [][\A r \in Requests :
            (/\ probe.handler = "serveWellKnown"
             /\ probe.reqs[r].pc = "new" /\ probe'.reqs[r].pc # "new"
             /\ probe'.reqs[r].path # WellKnownPath)
            => /\ probe'.cachedManifest = probe.cachedManifest
               /\ probe'.cachedAt = probe.cachedAt
               /\ probe'.fetches = probe.fetches
               /\ \A q \in Requests \ {r} : probe'.reqs[q] = probe.reqs[q]]_vars

\* the middleware, a manifest in its cache, has passed a request for
\* '/api/other' on
C30_Witness ==
    /\ "clock" \in DOMAIN probe
    /\ probe.handler = "serveWellKnown"
    /\ probe.cachedManifest = "manifest-2"
    /\ probe.reqs[2].pc = "done"
    /\ probe.reqs[2].path = "/api/other"
    /\ probe.reqs[2].nextCalls = 1
    /\ probe.reqs[2].answer = NoAnswer
    /\ probe.fetches = 1

NexusDiscoverCalls == {c \in Calls : pc[c] # "unused" /\ Is(c, "nexus", "discover")}

\* C31: NexusClient.discover never throws: it returns a list, and the empty
\* list when the last response is not OK, when the network fails after the
\* retries and when the body cannot be parsed.
C31_NexusDiscoverNeverThrows ==
    \A c \in NexusDiscoverCalls :
        pc[c] = "done" =>
            /\ result[c].kind \in {"emptyList", "json"}
            /\ (Len(hist[c]) >= 1
                  /\ (Last(c).net \/ ~Ok(Last(c)) \/ Last(c).body.tag # "json"))
                => result[c].kind = "emptyList"

\* C32: the key pair of an identity is never modified after construction:
\* whatever calls have signed with it, one after another or interleaved, its
\* private and public key are those it was constructed with and the public
\* key is the one derived from the private key.
C32_KeyPairNeverModified ==
    /\ [](/\ client.identity = TheIdentity
          /\ SkToPk(client.identity.privateKey) = client.identity.publicKey)
    /\ [][client'.identity = client.identity]_vars

\* two interleaved transact calls have both signed and ended
C32_Witness ==
    /\ \A c \in Calls : pc[c] = "done" /\ signs[c] >= 1 /\ Len(sent[c]) >= 1
    /\ client.identity = TheIdentity

TransactCalls == AmorceTransactCalls \cup NexusTransactCalls

\* C33: every attempt of one transact call sends the same request, built
\* and signed once before the first attempt: in NexusClient the envelope
\* with its id, timestamp and signature, in AmorceClient the body, the
\* signature, the agent id and the idempotency key.
C33_AttemptsSendSameRequest ==
    \A c \in TransactCalls :
        /\ signs[c] <= 1 /\ uuids[c] <= 1
        /\ \A i, j \in 1..Len(sent[c]) : sent[c][i] = sent[c][j]
        /\ \A i \in 1..Len(sent[c]) :
              /\ signs[c] = 1
              /\ sent[c][i].url = prep[c].url
              /\ sent[c][i].headers = prep[c].headers
              /\ Is(c, "nexus", "transact") =>
                    /\ sent[c][i].body = prep[c].body
                    /\ sent[c][i].body.id = sent[c][1].body.id
                    /\ sent[c][i].body.timestamp = sent[c][1].body.timestamp
                    /\ sent[c][i].body.signature = sent[c][1].body.signature
              /\ Is(c, "amorce", "transact") =>
                    /\ sent[c][i].body = JsonStringify(prep[c].body)
                    /\ sent[c][i].headers.signature = sent[c][1].headers.signature
                    /\ sent[c][i].headers.agentId = sent[c][1].headers.agentId
                    /\ sent[c][i].headers.idempotency = sent[c][1].headers.idempotency

\* a NexusClient.transact call has sent its signed envelope four times
C33_Witness ==
    \E c \in NexusTransactCalls :
        /\ Len(sent[c]) = 4
        /\ "signature" \in DOMAIN sent[c][4].body
        /\ sent[c][4] = sent[c][1]

\* C34: every request sent by AmorceClient.transact has a priority among
\* normal, high and critical, and a call with another priority fails before
\* any attempt is made.
C34_OnlyValidPrioritiesSent ==
    \A c \in AmorceTransactCalls :
        /\ \A i \in 1..Len(sent[c]) :
              Member(JsonParse(sent[c][i].body), "priority").s \in Priorities
        /\ args[c].priority \notin Priorities =>
              /\ Len(sent[c]) = 0
              /\ pc[c] = "done" => result[c].kind \notin {"AmorceResponse", "pending"}

\* C35: no response object returned by AmorceClient.transact has
\* isRetryable() true: a call whose last status is 429, 500, 502, 503 or 504
\* ends in a thrown error, never in a returned AmorceResponse.
C35_ReturnedResponseNeverRetryable ==
    \A c \in AmorceTransactCalls :
        pc[c] = "done" =>
            /\ result[c].kind = "AmorceResponse" => ~isRetryable(result[c])
            /\ (Len(hist[c]) >= 1 /\ ~Last(c).net
                  /\ Last(c).status \in {429, 500, 502, 503, 504})
                => result[c].kind \in {"AmorceNetworkError", "AmorceAPIError"}

\* a call whose last attempt was answered with 502 has thrown
C35_Witness ==
    \E c \in AmorceTransactCalls :
        /\ pc[c] = "done" /\ Len(hist[c]) = 4
        /\ ~Last(c).net /\ Last(c).status = 502
        /\ result[c].kind = "AmorceNetworkError"

\* C36: in every request sent by AmorceClient.transact the X-Amorce-Agent-ID
\* header equals the body's consumer_agent_id, and both equal the agentId
\* given to the constructor when it is non-empty and otherwise the id
\* derived from the identity's public key.
C36_AgentIdHeaderMatchesBody ==
    \A c \in AmorceTransactCalls :
        \A i \in 1..Len(sent[c]) :
            LET header == sent[c][i].headers.agentId
                consumer == Member(JsonParse(sent[c][i].body), "consumer_agent_id").s
                expected == IF ctor.agentId \notin {Absent, ""} THEN ctor.agentId
                            ELSE GetAgentId(client.identity)
            IN  header = consumer /\ header = expected

\* a client built with the empty string as agentId has sent a request twice,
\* the second with the id derived from the key in its header
C36_Witness ==
    \E c \in AmorceTransactCalls :
        /\ Len(sent[c]) >= 2
        /\ ctor.agentId = ""
        /\ sent[c][2].headers.agentId = GetAgentId(TheIdentity)

\* C37: in a manifest handler cachedAt never decreases, whatever the order
\* in which concurrent requests arrive and their fetches settle: no step
\* stores a timestamp earlier than the one already cached.
C37_CachedAtNeverDecreases ==
    [][probe'.cachedAt >= probe.cachedAt]_vars

\* the request served from the cache, and the place in the log of the store
\* that filled the cache it saw: the last one before the request arrived
Producer(q) ==
    LET arrived == Place("arrive", q)
        place == CHOOSE i \in 1..arrived :
                     /\ probe.log[i].ev = "stored"
                     /\ \A j \in (i + 1)..arrived : probe.log[j].ev # "stored"
    IN  probe.log[place].r

HttpErrorObject(out) == Result("errorObject", out.status, Absent, out.body, Absent)

\* C39: NexusClient.transact does not throw on a transport or HTTP failure.
\* When every attempt is answered with a status in {429, 500, 502, 503, 504}
\* the call ends after exactly 4 attempts and returns the error object of
\* the last response; a status that is neither ok nor retried ends it after
\* the attempt it answers, 1 attempt when it is the first answer, with the
\* error object; a network failure ends it only as the 4th attempt and gives
\* null; a missing service_id gives null with no attempt.
C39_NexusTransactReturnsErrorsAsValues ==
    \A c \in NexusTransactCalls :
        LET n == Len(hist[c])
            retried(i) == ~hist[c][i].net /\ hist[c][i].status \in {429, 500, 502, 503, 504}
        IN  /\ pc[c] = "done" => result[c].kind \in {"null", "errorObject", "json"}
            /\ (n >= 1 /\ \A i \in 1..n : retried(i)) =>
                  /\ n <= 4
                  /\ pc[c] = "done" <=> n = 4
                  /\ pc[c] = "done" =>
                        Len(sent[c]) = 4 /\ result[c] = HttpErrorObject(hist[c][4])
            /\ (n >= 1 /\ ~hist[c][n].net /\ ~Ok(hist[c][n]) /\ ~retried(n)) =>
                  /\ pc[c] = "done"
                  /\ Len(sent[c]) = n
                  /\ result[c] = HttpErrorObject(hist[c][n])
            /\ (n >= 1 /\ pc[c] = "done" /\ hist[c][n].net) =>
                  /\ n = 4 /\ Len(sent[c]) = 4
                  /\ result[c].kind = "null"
            /\ ~Truthy(args[c].service_id) =>
                  /\ Len(sent[c]) = 0
                  /\ pc[c] = "done" => result[c].kind = "null"

\* four attempts of a call were answered 500, 502, 504 and 429 and the call
\* has returned the error object of the last answer
C39_Witness ==
    \E c \in NexusTransactCalls :
        /\ pc[c] = "done"
        /\ Len(sent[c]) = 4 /\ Len(hist[c]) = 4
        /\ \A i \in 1..4 : ~hist[c][i].net
        /\ <<hist[c][1].status, hist[c][2].status, hist[c][3].status,
              hist[c][4].status>> = <<500, 502, 504, 429>>
        /\ result[c].kind = "errorObject"
        /\ result[c].status_code = 429
        /\ result[c].body = hist[c][4].body

====
